---- MODULE Spec2Model ----
(***************************************************************************)
(* A model of the SpiderFoot web control surface (sfwebui.py) together     *)
(* with the parts of the scan engine it drives: the persisted scan         *)
(* instances and their status, the stored events of a scan with their      *)
(* parent links and false-positive flags, and the module selection of      *)
(* startscan.                                                              *)
(*                                                                         *)
(* The persistence layer (SpiderFootDb), the scanner process               *)
(* (SpiderFootScanner) and the registry helpers of SpiderFoot              *)
(* (modulesProducing, eventsToModules, targetTypeFromString) are called by *)
(* sfwebui.py but are not part of the inspected sources; they are modelled *)
(* from their documented contract.                                         *)
(***************************************************************************)
EXTENDS Integers, Sequences, FiniteSets

\* ------------------------------------------------------------------ bounds

\* number of scan instance ids the database may hold
MaxScans == 2
\* number of events stored for the scan whose results are flagged (ROOT included)
MaxEvents == 4

\* number of result ids one resultsetfp request names
MaxBatch == 2
\* number of passes of startscan's expansion loop that are followed
MaxRounds == 6
\* number of scan ids one stopscan request names
MaxStopIds == 2
\* number of events a scanner finds in its work queue
MaxWork == 1
\* number of instances of sfp_voipbl in the process
MaxInstances == 2
\* number of handleEvent calls followed
MaxCalls == 2
\* number of workers that look the list up concurrently
MaxWorkers == 2
\* number of configuration dicts the settings requests make
MaxSaves == 1
\* the most events a scan holds besides its ROOT event
MaxRows == 2

ScanIds == 1..MaxScans
EventIds == 1..MaxEvents

\* the scan whose events the false-positive operations work on
FpScan == 1

\* "no row": the value scanInstanceGet returns for an unknown scan id
None == "NONE"

VARIABLES
    status,     \* persisted status of every scan instance (None: no record)
    evParent,   \* stored events of FpScan: evParent[e] is the parent of e, 0 for ROOT
    evFp,       \* stored events of FpScan: evFp[e] is the false_positive column, 0 or 1
    fpCall,     \* the resultsetfp request handled by the last step, NoCall otherwise
    produces,   \* config['__modules__']: the event types each module produces
    consumes,   \* config['__modules__']: the event types each module watches
    rslv,       \* startscan's type-based module selection, statement by statement
    proc,       \* the scanner process of every scan id
    work,       \* the events left in the work queue of every scanner
    launched,   \* the arguments every scanner process was started with
    nextId,     \* the scan ids handed out so far, plus one
    start,      \* the web thread serving startscan or rerunscan
    stop,       \* the web thread serving stopscan
    heap,       \* the configuration dicts of the web process: heap[r] is the dict r refers to
    config,     \* self.config: a reference into heap
    token,      \* str(self.token): "None" before opts or optsraw has set it
    dbConfig,   \* the configuration persisted in the database
    setCall,    \* the last settings request handled, NoSetCall before the first
    vbOpts,     \* sfp_voipbl.opts: the dict of the class
    inst,       \* the instances of sfp_voipbl: set up or not, results, what they did since setup
    cache,      \* the cached copy of the list (sf.cacheGet / sf.cachePut)
    stopped,    \* what checkForStop returns
    calls,      \* the handleEvent calls made so far
    setupCall,  \* the userOpts of the last setup call
    fetchers,   \* the resourceList calls of concurrent workers: where each one is
    vb,         \* the handleEvent call under way
    delivered,  \* the events a scan that delivers every event once has delivered
    del,        \* the web thread serving scandelete
    view        \* the result view served by the last step, NoView otherwise

vars == <<status, evParent, evFp, fpCall, produces, consumes, rslv,
          proc, work, launched, nextId, start, stop,
          heap, config, token, dbConfig, setCall,
          vbOpts, inst, cache, stopped, calls, setupCall, fetchers, vb,
          delivered, del, view>>

scanVars == <<proc, work, launched, nextId, start, stop>>

fpVars == <<evParent, evFp, fpCall>>
registryVars == <<produces, consumes>>
cfgVars == <<heap, config, token, dbConfig, setCall>>
vbVars == <<vbOpts, inst, cache, stopped, calls, setupCall, fetchers, vb, delivered>>
webVars == <<del, view>>

\* no resultsetfp request was handled by the last step
NoCall == [op |-> "none", id |-> 0, ids |-> {}, fp |-> "", jsonok |-> FALSE,
           resp |-> <<"", "">>, before |-> <<>>]

\* no result view was served by the last step
NoView == [op |-> "none", scans |-> <<>>, eventType |-> "", rows |-> <<>>]

\* ------------------------------------------------- persistence layer (db)

\* SpiderFootDb.scanInstanceGet: the status column (row[5]) of a scan, or None
scanInstanceGet(id) == status[id]

\* the event hashes stored for a scan instance
StoredEvents(instanceId) ==
    IF instanceId = FpScan THEN 1..Len(evParent) ELSE {}

RECURSIVE AncestorsOf(_)
\* every event on the parent chain of e, e excluded
AncestorsOf(e) ==
    IF evParent[e] = 0 THEN {} ELSE {evParent[e]} \cup AncestorsOf(evParent[e])

\* every event whose parent chain passes through e, e excluded
DescendantsOf(e) == {d \in 1..Len(evParent) : e \in AncestorsOf(d)}

\* SpiderFootDb.scanElementSourcesDirect: one row per (element, direct source
\* element); parent_fp is the source element's false_positive column (row[14])
scanElementSourcesDirect(instanceId, ids) ==
    {[hash |-> c, source_event_hash |-> evParent[c], parent_fp |-> evFp[evParent[c]]] :
        c \in {x \in ids \cap StoredEvents(instanceId) : evParent[x] # 0}}

\* SpiderFootDb.scanElementChildrenAll: the transitive children of the elements
scanElementChildrenAll(instanceId, ids) ==
    UNION {DescendantsOf(e) : e \in ids \cap StoredEvents(instanceId)}

\* SpiderFootDb.scanResultsUpdateFP: set the flag of every listed stored element
scanResultsUpdateFP(instanceId, resultHashes, fpFlag) ==
    [e \in 1..Len(evFp) |->
        IF e \in resultHashes \cap StoredEvents(instanceId) THEN fpFlag ELSE evFp[e]]

\* ---------------------------------------------------------- configuration

\* the global options of the configuration and the values they take
ConfigOptions == {"_debug", "_useragent"}
ConfigValues == {"0", "1"}

\* the configuration the web UI is constructed with
DefaultContent == [o \in ConfigOptions |-> "0"]

\* self.defaultConfig = deepcopy(config): the first dict of the heap
DefaultConfigRef == 1

DeepcopyRef_alias(h, ref) == ref
\* deepcopy(d): the copy is a new dict, the last of the heap after the copy
DeepcopyRef(h, ref) == Len(h) + 1

\* deepcopy(d): the heap after the copy
DeepcopyHeap(h, ref) == Append(h, h[ref])

\* SpiderFoot.configUnserialize(opts, referencePoint): the options given
\* override those of referencePoint, which is changed and returned
configUnserialize(h, opts, referencePoint) ==
    [h EXCEPT ![referencePoint] =
        [o \in ConfigOptions |-> IF o \in DOMAIN opts THEN opts[o] ELSE @[o]]]

\* no option: what the database holds when no configuration is saved
EmptyOpts == [o \in {} |-> "0"]

\* no settings request was handled yet
NoSetCall == [op |-> "none", kind |-> "none", tok |-> "", resp |-> <<"", "">>, config |-> DefaultContent,
              dbConfig |-> EmptyOpts]

\* __init__ with nothing saved in the database: self.config is the dict
\* configUnserialize returns, self.defaultConfig itself; no token is set
CfgVarsIdle ==
    /\ heap = <<DefaultContent>>
    /\ config = DefaultConfigRef
    /\ token = "None"
    /\ dbConfig = EmptyOpts
    /\ setCall = NoSetCall

\* the configurations found saved in the database at construction
SavedAtStart == {EmptyOpts, [o \in {"_debug"} |-> "1"]}

\* __init__ with a configuration saved in the database: configUnserialize
\* applies it to self.defaultConfig, and self.config is that dict
CfgVarsStart(saved) ==
    /\ heap = configUnserialize(<<DefaultContent>>, saved, DefaultConfigRef)
    /\ config = DefaultConfigRef
    /\ token = "None"
    /\ dbConfig = saved
    /\ setCall = NoSetCall

\* ------------------------------------------------------- module registry

\* the event types of the model
Types == {"X", "Y", "Z"}

\* the modules of the registry, in the ascending order list.sort() gives their
\* names ('_' sorts before the lower-case letters)
ModuleOrder == <<"sfp__stor_db", "sfp__stor_stdout", "sfp_a", "sfp_b", "sfp_c">>
Modules == {ModuleOrder[i] : i \in 1..Len(ModuleOrder)}

\* the modules that gather data; the two storage modules produce no event type
DataModules == {"sfp_a", "sfp_b", "sfp_c"}

\* a registry: A produces X and consumes nothing, B consumes X and produces Y
ExampleProduces ==
    [m \in Modules |-> IF m = "sfp_a" THEN {"X"} ELSE IF m = "sfp_b" THEN {"Y"} ELSE {}]
ExampleConsumes ==
    [m \in Modules |-> IF m = "sfp_b" THEN {"X"} ELSE {}]

\* SpiderFoot.modulesProducing: the modules whose produced types meet the events
modulesProducing(events) == {m \in Modules : produces[m] \cap events # {}}

\* SpiderFoot.eventsToModules: the event types the given modules consume
eventsToModules(modules) == UNION {consumes[m] : m \in modules \cap Modules}

\* ------------------------------------- startscan: type-based module selection

\* modlist, newmods and newmodcpy hold no module twice (modulesProducing
\* returns list(set(..)) and a module is appended only when it is not in
\* modlist), and modlist is sorted before it is used: they are kept as sets.

\* examined: the modules whose consumed types an earlier pass of the loop has
\* looked at; again: those a later pass has looked at once more; rounds: the
\* number of passes made
RslvIdle == [pc |-> "idle", typesx |-> {}, modlist |-> {}, newmods |-> {},
             newmodcpy |-> {}, examined |-> {}, again |-> {}, rounds |-> 0]

\* "1. Find all modules that produce the requested types"
SelectProducing(typesx) ==
    [pc |-> "loop", typesx |-> typesx,
     modlist |-> modulesProducing(typesx),
     newmods |-> modulesProducing(typesx),
     newmodcpy |-> modulesProducing(typesx),
     examined |-> {}, again |-> {}, rounds |-> 0]

\* every module producing a type that a module of newmodcpy consumes
Candidates(newmodcpy) ==
    UNION {modulesProducing({etype}) : etype \in eventsToModules(newmodcpy)}

NotInModlist_all(xmods, modlist) == xmods
\* "if mod not in modlist": the modules of xmods that are appended
NotInModlist(xmods, modlist) == xmods \ modlist

NextNewmodcpy_none(newmods) == {}
\* "newmodcpy = deepcopy(newmods)"
NextNewmodcpy(newmods) == newmods

\* one pass of the body of "while len(newmodcpy) > 0"
ExpandRound(st) ==
    LET found == NotInModlist(Candidates(st.newmodcpy), st.modlist) IN
    [st EXCEPT !.modlist = st.modlist \cup found,
               !.newmodcpy = NextNewmodcpy(st.newmods \cup found),
               !.newmods = {},
               !.examined = st.examined \cup st.newmodcpy,
               !.again = st.again \cup (st.examined \cap st.newmodcpy),
               !.rounds = st.rounds + 1]

RECURSIVE ExpandLoop(_)
\* the while loop, run to its end: the final modlist
ExpandLoop(st) ==
    IF st.newmodcpy = {} THEN st.modlist ELSE ExpandLoop(ExpandRound(st))

\* the type-based selection starts
ResolveByTypes(typesx) ==
    /\ rslv.pc \in {"idle", "done"}
    /\ rslv' = SelectProducing(typesx)
    /\ UNCHANGED <<status, fpVars, registryVars, cfgVars, vbVars, scanVars, webVars>>

\* the loop condition holds: the body runs once
ExpandStep ==
    /\ rslv.pc = "loop"
    /\ rslv.newmodcpy # {}
    /\ rslv.rounds < MaxRounds
    /\ rslv' = ExpandRound(rslv)
    /\ UNCHANGED <<status, fpVars, registryVars, cfgVars, vbVars, scanVars, webVars>>

\* the loop condition fails: the loop is left
ExpandExit ==
    /\ rslv.pc = "loop"
    /\ rslv.newmodcpy = {}
    /\ rslv' = [rslv EXCEPT !.pc = "done"]
    /\ UNCHANGED <<status, fpVars, registryVars, cfgVars, vbVars, scanVars, webVars>>

\* ------------------------------------------------------------ resultsetfp

\* the fp argument as stored in the false_positive column
FpFlag(fp) == IF fp = "1" THEN 1 ELSE 0

FinishedState_any(st) == TRUE
\* resultsetfp: "Cannot set FPs if a scan is not completed"
FinishedState(st) == st \in {"ABORTED", "FINISHED", "ERROR-FAILED"}

ParentIsFp_never(id, ids) == FALSE
\* resultsetfp: some row of scanElementSourcesDirect has parent_fp = 1
ParentIsFp(id, ids) ==
    \E row \in scanElementSourcesDirect(id, ids) : row.parent_fp = 1

AllIds_targetsOnly(id, ids) == ids
AllIds_withSources(id, ids) ==
    ids \cup scanElementChildrenAll(id, ids)
        \cup UNION {AncestorsOf(e) : e \in ids \cap StoredEvents(id)}
\* resultsetfp: allIds = ids + childs
AllIds(id, ids) == ids \cup scanElementChildrenAll(id, ids)

\* the response of resultsetfp(id, resultids, fp); jsonok: resultids parses as
\* JSON; dbok: scanResultsUpdateFP returns a true value
resultsetfpResponse(id, ids, fp, jsonok, dbok) ==
    IF fp \notin {"0", "1"} THEN <<"ERROR", "No FP flag set or not set correctly.">>
    ELSE IF ~jsonok THEN <<"ERROR", "No IDs supplied.">>
    ELSE IF scanInstanceGet(id) = None THEN <<"ERRORPAGE", "Invalid scan ID">>
    ELSE IF ~FinishedState(scanInstanceGet(id))
        THEN <<"WARNING", "Scan must be in a finished state when setting False Positives.">>
    ELSE IF fp = "0" /\ ParentIsFp(id, ids)
        THEN <<"WARNING", "Cannot unset element as False Positive if a parent element is still False Positive.">>
    ELSE IF dbok THEN <<"SUCCESS", "">>
    ELSE <<"ERROR", "Exception encountered.">>

resultsetfp(id, ids, fp, jsonok, dbok) ==
    LET resp == resultsetfpResponse(id, ids, fp, jsonok, dbok) IN
    /\ evFp' = IF resp[1] = "SUCCESS"
                 THEN scanResultsUpdateFP(id, AllIds(id, ids), FpFlag(fp))
                 ELSE evFp
    /\ fpCall' = [op |-> "resultsetfp", id |-> id, ids |-> ids, fp |-> fp,
                  jsonok |-> jsonok, resp |-> resp, before |-> evFp]
    /\ view' = NoView
    /\ UNCHANGED <<status, evParent, registryVars, cfgVars, vbVars, rslv, del, scanVars>>

\* --------------------------------------------- the scanner of FpScan (store)

\* the scanner stores one more event, caused by an event already stored
StoreEvent(parent) ==
    /\ status[FpScan] = "RUNNING"
    /\ Len(evParent) < MaxEvents
    /\ parent \in 1..Len(evParent)
    /\ evParent' = Append(evParent, parent)
    /\ evFp' = Append(evFp, 0)
    /\ fpCall' = NoCall
    /\ view' = NoView
    /\ UNCHANGED <<status, registryVars, cfgVars, vbVars, rslv, del, scanVars>>

\* the scanner ends the scan: it persists a terminal status
EndScan(st) ==
    /\ status[FpScan] = "RUNNING"
    /\ st \in {"FINISHED", "ABORTED", "ERROR-FAILED"}
    /\ status' = [status EXCEPT ![FpScan] = st]
    /\ fpCall' = NoCall
    /\ view' = NoView
    /\ UNCHANGED <<evParent, evFp, registryVars, cfgVars, vbVars, rslv, del, scanVars>>

\* ------------------------------------------------------------------ strings

\* the scan names and targets a request may carry
ScanNames == {"", "scan", "<b>"}
Targets == {"", "example.com", "Example.COM", "\"John Doe\"", "???"}

\* html.escape(item, True) on the strings above
HtmlEscape(item) ==
    CASE item = "<b>" -> "&lt;b&gt;"
      [] item = "\"John Doe\"" -> "&quot;John Doe&quot;"
      [] item = "\"JohnDoe\"" -> "&quot;JohnDoe&quot;"
      [] OTHER -> item

\* c.replace("&amp;", "&").replace("&quot;", "\"") on the escaped strings
UnescapeAmpQuot(c) ==
    CASE c = "&quot;John Doe&quot;" -> "\"John Doe\""
      [] c = "&quot;JohnDoe&quot;" -> "\"JohnDoe\""
      [] OTHER -> c

\* SpiderFootWebUi.cleanUserInput, for one item of the list
cleanUserInput(item) ==
    IF item = "" THEN "" ELSE UnescapeAmpQuot(HtmlEscape(item))

\* SpiderFootHelpers.targetTypeFromString: the type of a target, None when it
\* is not recognised; a quoted string is a name
targetTypeFromString(target) ==
    CASE target \in {"example.com", "Example.COM"} -> "INTERNET_NAME"
      [] target = "\"John Doe\"" -> "HUMAN_NAME"
      [] target = "\"JohnDoe\"" -> "USERNAME"
      [] OTHER -> None

\* scantarget.replace("\"", "")
StripQuotes(target) ==
    CASE target = "\"John Doe\"" -> "John Doe"
      [] target = "\"JohnDoe\"" -> "JohnDoe"
      [] OTHER -> target

\* scantarget.lower()
Lower(target) ==
    CASE target = "Example.COM" -> "example.com"
      [] target = "\"John Doe\"" -> "\"john doe\""
      [] target = "John Doe" -> "john doe"
      [] target = "\"JohnDoe\"" -> "\"johndoe\""
      [] target = "JohnDoe" -> "johndoe"
      [] OTHER -> target

\* ------------------------------------------------- startscan: module list

Range(seq) == {seq[i] : i \in 1..Len(seq)}

\* the position of a module name in ascending order
Rank(name) == CHOOSE i \in 1..Len(ModuleOrder) : ModuleOrder[i] = name

RECURSIVE InsertSorted(_, _)
InsertSorted(seq, name) ==
    IF seq = <<>> THEN <<name>>
    ELSE IF Rank(name) < Rank(Head(seq)) THEN <<name>> \o seq
    ELSE <<Head(seq)>> \o InsertSorted(Tail(seq), name)

RECURSIVE SortedList(_)
\* list.sort()
SortedList(seq) ==
    IF seq = <<>> THEN <<>> ELSE InsertSorted(SortedList(Tail(seq)), Head(seq))

RECURSIVE RemoveFirst(_, _)
\* list.remove(name): the first occurrence goes
RemoveFirst(seq, name) ==
    IF seq = <<>> THEN <<>>
    ELSE IF Head(seq) = name THEN Tail(seq)
    ELSE <<Head(seq)>> \o RemoveFirst(Tail(seq), name)

\* the modules of a set as a list
ListOf(mods) ==
    LET In(m) == m \in mods IN SelectSeq(ModuleOrder, In)

\* config['__modules__'][mod]['group']
GroupOf(mod) ==
    CASE mod = "sfp_a" -> {"passive"}
      [] mod = "sfp_b" -> {"passive", "investigate"}
      [] mod = "sfp_c" -> {"footprint"}
      [] OTHER -> {}

\* "User selected a use case"
UseCaseModules(usecase) ==
    LET In(m) == usecase = "all" \/ usecase \in GroupOf(m) IN
    SelectSeq(ModuleOrder, In)

SelectModules_useCaseFirst(modulelist, typelist, usecase) ==
    IF usecase # "" THEN UseCaseModules(usecase)
    ELSE IF Len(modulelist) = 0 /\ typelist # {}
        THEN ListOf(ExpandLoop(SelectProducing(typelist)))
    ELSE modulelist
\* the three selections of startscan, in their order: modulelist is the list
\* of the names between the commas (empty for the empty string), typelist the
\* set of the requested types
SelectModules(modulelist, typelist, usecase) ==
    LET byModules == modulelist
        byTypes == IF Len(byModules) = 0 /\ typelist # {}
                     THEN ListOf(ExpandLoop(SelectProducing(typelist)))
                     ELSE byModules
    IN  IF Len(byTypes) = 0 /\ usecase # ""
          THEN UseCaseModules(usecase)
          ELSE byTypes

NoModules_never(modlist) == FALSE
\* "if not modlist"
NoModules(modlist) == modlist = <<>>

PolicyModules_unsorted(modlist) ==
    IF "sfp__stor_db" \notin Range(modlist) THEN Append(modlist, "sfp__stor_db") ELSE modlist
\* the storage module is added, the list sorted, the stdout module removed
PolicyModules(modlist) ==
    LET withDb == IF "sfp__stor_db" \notin Range(modlist)
                    THEN Append(modlist, "sfp__stor_db") ELSE modlist
        sorted == SortedList(withDb)
    IN  IF "sfp__stor_stdout" \in Range(sorted)
          THEN RemoveFirst(sorted, "sfp__stor_stdout") ELSE sorted

\* the target as handed to the scanner
LaunchTarget(targetType, scantarget) ==
    IF targetType \in {"HUMAN_NAME", "USERNAME", "BITCOIN_ADDRESS"}
      THEN StripQuotes(scantarget)
      ELSE Lower(scantarget)

\* ------------------------------------------------------------- startscan

NoReq == [scanname |-> "", scantarget |-> "", modulelist |-> <<>>,
          typelist |-> {}, usecase |-> "", spawnok |-> FALSE]
\* cfg: the dict handed to the scanner; snapshot: what it held at that time
NoLaunch == [scanname |-> "", scantarget |-> "", targetType |-> None,
             modlist |-> <<>>, cfg |-> 0, snapshot |-> DefaultContent]
\* src: the scan a rerun that is under way runs again
StartIdle == [pc |-> "idle", op |-> "", scanId |-> 0, resp |-> <<"", "">>,
              req |-> NoReq, src |-> 0]
StopIdle == [pc |-> "idle", ids |-> <<>>, i |-> 0, resp |-> <<"", "">>,
             seen |-> <<>>, wrote |-> {}]

ScanVarsIdle ==
    /\ proc = [s \in ScanIds |-> "none"]
    /\ work = [s \in ScanIds |-> 0]
    /\ launched = [s \in ScanIds |-> NoLaunch]
    /\ nextId = 1
    /\ start = StartIdle
    /\ stop = StopIdle

\* the error startscan answers with before it starts a scan, "" when none
StartscanError(scanname, scantarget, modulelist, typelist, usecase) ==
    IF scanname = "" THEN "scan name was not specified."
    ELSE IF scantarget = "" THEN "scan target was not specified."
    ELSE IF typelist = {} /\ modulelist = <<>> /\ usecase = ""
        THEN "no modules specified for scan."
    ELSE IF targetTypeFromString(scantarget) = None THEN "Unrecognised target type."
    ELSE IF NoModules(SelectModules(modulelist, typelist, usecase))
        THEN "no modules specified for scan."
    ELSE ""

\* startscan up to its wait for the scan to initialize; spawnok: p.start()
\* raises no exception. The snapshot of the configuration taken by a request
\* that starts no scan is referred to by nothing and is left out of the heap
startscan(scanname, scantarget, modulelist, typelist, usecase, spawnok) ==
    LET name == cleanUserInput(scanname)
        target == cleanUserInput(scantarget)
        req == [scanname |-> scanname, scantarget |-> scantarget,
                modulelist |-> modulelist, typelist |-> typelist,
                usecase |-> usecase, spawnok |-> spawnok]
        err == StartscanError(name, target, modulelist, typelist, usecase)
        targetType == targetTypeFromString(target)
        scanId == nextId
    IN
    /\ start.pc = "idle"
    /\ IF err # ""
         THEN /\ start' = [pc |-> "idle", op |-> "startscan", scanId |-> 0,
                           resp |-> <<"ERROR", err>>, req |-> req, src |-> 0]
              /\ UNCHANGED <<proc, launched, nextId, heap>>
         ELSE IF ~spawnok
         THEN /\ start' = [pc |-> "idle", op |-> "startscan", scanId |-> 0,
                           resp |-> <<"ERROR", "Scan failed">>, req |-> req, src |-> 0]
              /\ UNCHANGED <<proc, launched, nextId, heap>>
         ELSE /\ scanId <= MaxScans
              /\ heap' = DeepcopyHeap(heap, config)
              /\ proc' = [proc EXCEPT ![scanId] = "spawned"]
              /\ launched' = [launched EXCEPT ![scanId] =
                    [scanname |-> name,
                     scantarget |-> LaunchTarget(targetType, target),
                     targetType |-> targetType,
                     modlist |-> PolicyModules(
                                    SelectModules(modulelist, typelist, usecase)),
                     cfg |-> DeepcopyRef(heap, config),
                     snapshot |-> heap[config]]]
              /\ nextId' = nextId + 1
              /\ start' = [pc |-> "wait", op |-> "startscan", scanId |-> scanId,
                           resp |-> <<"", "">>, req |-> req, src |-> 0]
    /\ UNCHANGED <<status, work, stop, fpVars, registryVars, config, token, dbConfig,
                   setCall, vbVars, rslv, webVars>>

\* "Wait until the scan has initialized": the loop ends once the scan has a row
StartscanReturn ==
    /\ start.pc = "wait"
    /\ scanInstanceGet(start.scanId) # None
    /\ start' = [start EXCEPT !.pc = "idle", !.resp = <<"SUCCESS", "">>, !.src = 0]
    /\ UNCHANGED <<status, proc, work, launched, nextId, stop, fpVars,
                   registryVars, cfgVars, vbVars, rslv, webVars>>

\* -------------------------------------------------------------- stopscan

Stoppable_notEnded(scan_status) == scan_status \notin {None, "FINISHED", "ABORTED"}
\* stopscan: the scan exists, has not finished, has not aborted, is RUNNING
Stoppable(scan_status) ==
    /\ scan_status # None
    /\ scan_status # "FINISHED"
    /\ scan_status # "ABORTED"
    /\ scan_status = "RUNNING"

\* SpiderFootDb.scanInstanceSet(scan_id, status=...): the row, if any, is updated
scanInstanceSet(scan_id, st) ==
    IF status[scan_id] = None THEN status ELSE [status EXCEPT ![scan_id] = st]

\* stopscan is called with the ids between the commas of its argument
StopscanBegin(ids) ==
    /\ stop.pc = "idle"
    /\ stop' = IF ids = <<>>
                 THEN [StopIdle EXCEPT !.resp = <<"404", "No scan specified">>]
                 ELSE [StopIdle EXCEPT !.pc = "check", !.ids = ids, !.i = 1]
    /\ UNCHANGED <<status, proc, work, launched, nextId, start, fpVars,
                   registryVars, cfgVars, vbVars, rslv, webVars>>

\* one pass of the first loop: the status of one listed scan is read and checked
StopscanCheck ==
    /\ stop.pc = "check"
    /\ LET res == scanInstanceGet(stop.ids[stop.i])
           seen == Append(stop.seen, res)
       IN stop' =
            IF ~Stoppable(res)
              THEN [stop EXCEPT !.pc = "idle", !.seen = seen,
                                !.resp = <<IF res = None THEN "404" ELSE "400", "error">>]
            ELSE IF stop.i < Len(stop.ids)
              THEN [stop EXCEPT !.i = stop.i + 1, !.seen = seen]
            ELSE [stop EXCEPT !.pc = "set", !.i = 1, !.seen = seen]
    /\ UNCHANGED <<status, proc, work, launched, nextId, start, fpVars,
                   registryVars, cfgVars, vbVars, rslv, webVars>>

\* one pass of the second loop: one listed scan is set to ABORT-REQUESTED
StopscanSet ==
    /\ stop.pc = "set"
    /\ status' = scanInstanceSet(stop.ids[stop.i], "ABORT-REQUESTED")
    /\ stop' = IF stop.i < Len(stop.ids)
                 THEN [stop EXCEPT !.i = stop.i + 1,
                                   !.wrote = stop.wrote \cup {stop.ids[stop.i]}]
                 ELSE [stop EXCEPT !.pc = "idle", !.resp = <<"200", "">>,
                                   !.wrote = stop.wrote \cup {stop.ids[stop.i]}]
    /\ UNCHANGED <<proc, work, launched, nextId, start, fpVars, registryVars, cfgVars, vbVars, rslv, webVars>>

\* ------------------------------------------------------------ scandelete

\* seen: the status read for every id checked so far; deleted: the listed scans
\* whose row this request has removed
DeleteIdle == [pc |-> "idle", ids |-> <<>>, i |-> 0, resp |-> <<"", "">>,
               seen |-> <<>>, deleted |-> {}]

Undeletable_never(scan_status) == FALSE
\* scandelete: 'if res[5] in ["RUNNING", "STARTING", "STARTED"]'
Undeletable(scan_status) == scan_status \in {"RUNNING", "STARTING", "STARTED"}

\* SpiderFootDb.scanInstanceDelete(scan_id): the row of the scan is removed
scanInstanceDelete(scan_id) == [status EXCEPT ![scan_id] = None]

\* scandelete is called with the ids between the commas of its argument
ScandeleteBegin(ids) ==
    /\ del.pc = "idle"
    /\ del' = IF ids = <<>>
                THEN [DeleteIdle EXCEPT !.resp = <<"404", "No scan specified">>]
                ELSE [DeleteIdle EXCEPT !.pc = "check", !.ids = ids, !.i = 1]
    /\ UNCHANGED <<status, view, scanVars, fpVars, registryVars, cfgVars, vbVars, rslv>>

\* one pass of the first loop: one listed scan is looked up and checked
ScandeleteCheck ==
    /\ del.pc = "check"
    /\ LET res == scanInstanceGet(del.ids[del.i])
           seen == Append(del.seen, res)
       IN del' =
            IF res = None
              THEN [del EXCEPT !.pc = "idle", !.seen = seen,
                               !.resp = <<"404", "does not exist">>]
            ELSE IF Undeletable(res)
              THEN [del EXCEPT !.pc = "idle", !.seen = seen,
                               !.resp = <<"400", "You cannot delete running scans.">>]
            ELSE IF del.i < Len(del.ids)
              THEN [del EXCEPT !.i = del.i + 1, !.seen = seen]
            ELSE [del EXCEPT !.pc = "delete", !.i = 1, !.seen = seen]
    /\ UNCHANGED <<status, view, scanVars, fpVars, registryVars, cfgVars, vbVars, rslv>>

\* one pass of the second loop: one listed scan is deleted
ScandeleteDelete ==
    /\ del.pc = "delete"
    /\ status' = scanInstanceDelete(del.ids[del.i])
    /\ LET deleted == IF status[del.ids[del.i]] = None
                        THEN del.deleted ELSE del.deleted \cup {del.ids[del.i]}
       IN del' = IF del.i < Len(del.ids)
                   THEN [del EXCEPT !.i = del.i + 1, !.deleted = deleted]
                   ELSE [del EXCEPT !.pc = "idle", !.resp = <<"200", "">>,
                                    !.deleted = deleted]
    /\ UNCHANGED <<view, scanVars, fpVars, registryVars, cfgVars, vbVars, rslv>>

\* ---------------------------------------------------------- result views

\* The events of a scan are kept as the list of their types, in the order they
\* were stored: the ROOT event first. A row of a view is kept as its event type
\* column (row[4] of scanResultEvent, row[0] of scanResultSummary, row[1] of
\* scanResultEventUnique).

\* the event types modules produce, and all event types in a fixed order
ResultTypes == {"INTERNET_NAME", "IP_ADDRESS"}
EventTypeOrder == <<"ROOT", "INTERNET_NAME", "IP_ADDRESS">>

\* what a scan can hold: the ROOT event and up to MaxRows events after it
ScanContents ==
    UNION {{<<"ROOT">> \o rest : rest \in [1..n -> ResultTypes]} : n \in 0..MaxRows}

\* the rows of a list that are not ROOT rows: 'if row[..] == "ROOT": continue'
SkipRoot(rows) ==
    LET NotRoot(t) == t # "ROOT" IN SelectSeq(rows, NotRoot)

scanResultEvent_withRoot(content, eventType) ==
    LET Wanted(t) == eventType = "ALL" \/ t = eventType IN SelectSeq(content, Wanted)
\* SpiderFootDb.scanResultEvent (resultsByType): the events of the requested
\* type, or of every type for ALL, the ROOT event excluded
scanResultEvent(content, eventType) ==
    LET Wanted(t) == t # "ROOT" /\ (eventType = "ALL" \/ t = eventType)
    IN  SelectSeq(content, Wanted)

\* SpiderFootDb.scanResultSummary (resultSummary): one row per event type the
\* scan holds, the ROOT type excluded
scanResultSummary(content, by) ==
    LET Held(t) == t # "ROOT" /\ \E k \in 1..Len(content) : content[k] = t
    IN  SelectSeq(EventTypeOrder, Held)

\* SpiderFootDb.scanResultEventUnique (uniqueResultsByType): one row per
\* distinct value of the requested type, the ROOT type excluded; the events of
\* one type are taken to hold one value
scanResultEventUnique(content, eventType) ==
    LET Held(t) == /\ t # "ROOT"
                   /\ (eventType = "ALL" \/ t = eventType)
                   /\ \E k \in 1..Len(content) : content[k] = t
    IN  SelectSeq(EventTypeOrder, Held)

RECURSIVE AllResultEvents(_)
\* "data = data + dbh.scanResultEvent(id)" for every listed scan
AllResultEvents(scans) ==
    IF scans = <<>> THEN <<>>
    ELSE scanResultEvent(Head(scans), "ALL") \o AllResultEvents(Tail(scans))

\* a view is served: what was asked and the rows returned
Served(op, scans, eventType, rows) ==
    /\ view' = [op |-> op, scans |-> scans, eventType |-> eventType, rows |-> rows]
    /\ UNCHANGED <<status, del, scanVars, fpVars, registryVars, cfgVars, vbVars, rslv>>

\* scansummary(id, by)
scansummary(content, by) ==
    Served("scansummary", <<content>>, by, SkipRoot(scanResultSummary(content, by)))

\* scaneventresults(id, eventType): every row is returned
scaneventresults(content, eventType) ==
    Served("scaneventresults", <<content>>, eventType, scanResultEvent(content, eventType))

\* scaneventresultsunique(id, eventType): every row is returned
scaneventresultsunique(content, eventType) ==
    Served("scaneventresultsunique", <<content>>, eventType,
           scanResultEventUnique(content, eventType))

\* scaneventresultexport(id, type)
scaneventresultexport(content, type) ==
    Served("scaneventresultexport", <<content>>, type,
           SkipRoot(scanResultEvent(content, type)))

\* scaneventresultexportmulti(ids)
scaneventresultexportmulti(scans) ==
    Served("scaneventresultexportmulti", scans, "ALL", SkipRoot(AllResultEvents(scans)))

\* scanexportjsonmulti(ids)
scanexportjsonmulti(scans) ==
    Served("scanexportjsonmulti", scans, "ALL", SkipRoot(AllResultEvents(scans)))

\* ------------------------------------------------------------ graph export

scanResultEventIds_unfiltered(instanceId, filterFp) ==
    LET Stored(e) == e \in StoredEvents(instanceId) IN
    SelectSeq([e \in 1..Len(evFp) |-> e], Stored)
\* SpiderFootDb.scanResultEvent(id, filterFp=..): the events of the scan in the
\* order they were stored, those flagged false positive left out when filterFp
scanResultEventIds(instanceId, filterFp) ==
    LET Wanted(e) == e \in StoredEvents(instanceId) /\ (filterFp => evFp[e] = 0) IN
    SelectSeq([e \in 1..Len(evFp) |-> e], Wanted)

RECURSIVE VizData(_)
\* scanvizmulti: "data = data + dbh.scanResultEvent(id, filterFp=True)"
VizData(ids) ==
    IF ids = <<>> THEN <<>>
    ELSE scanResultEventIds(Head(ids), TRUE) \o VizData(Tail(ids))

\* a graph export is served: rows is the data handed to buildGraphJson or
\* buildGraphGexf, empty when neither is called
Exported(op, ids, gexf, rows) ==
    /\ view' = [op |-> op, scans |-> ids, eventType |-> gexf, rows |-> rows]
    /\ fpCall' = NoCall
    /\ UNCHANGED <<status, evParent, evFp, del, scanVars, registryVars, cfgVars, vbVars, rslv>>

\* scanviz(id, gexf): nothing is exported for a scan that does not exist
scanviz(id, gexf) ==
    Exported("scanviz", <<id>>, gexf,
             IF scanInstanceGet(id) = None THEN <<>> ELSE scanResultEventIds(id, TRUE))

\* scanvizmulti(ids, gexf): gexf = "0" is "Not implemented yet"
scanvizmulti(ids, gexf) ==
    Exported("scanvizmulti", ids, gexf,
             IF ids = <<>> \/ gexf = "0" THEN <<>> ELSE VizData(ids))

\* no scandelete request is under way, no result view was served
WebVarsIdle ==
    /\ del = DeleteIdle
    /\ view = NoView

\* ----------------------------------------------------- the scanner process

\* the scanner persists its scan instance, in status STARTING
ScannerInit(s) ==
    /\ proc[s] = "spawned"
    /\ status' = [status EXCEPT ![s] = "STARTING"]
    /\ proc' = [proc EXCEPT ![s] = "starting"]
    /\ UNCHANGED <<work, launched, nextId, start, stop, fpVars, registryVars, cfgVars, vbVars, rslv, webVars>>

\* the modules are set up and the ROOT event is queued: the scan is RUNNING
ScannerRun(s, n) ==
    /\ proc[s] = "starting"
    /\ status' = scanInstanceSet(s, "RUNNING")
    /\ proc' = [proc EXCEPT ![s] = "running"]
    /\ work' = [work EXCEPT ![s] = n]
    /\ UNCHANGED <<launched, nextId, start, stop, fpVars, registryVars, cfgVars, vbVars, rslv, webVars>>

\* one pass of the dispatch loop: the abort request is polled; without one the
\* next queued event is handled, or the scan finishes when none is left. The
\* queue lives in the process and goes with it
ScannerDispatch(s) ==
    /\ proc[s] = "running"
    /\ IF status[s] = "ABORT-REQUESTED"
         THEN /\ status' = scanInstanceSet(s, "ABORTED")
              /\ proc' = [proc EXCEPT ![s] = "exited"]
              /\ work' = [work EXCEPT ![s] = 0]
         ELSE IF work[s] > 0
         THEN /\ work' = [work EXCEPT ![s] = work[s] - 1]
              /\ UNCHANGED <<status, proc>>
         ELSE /\ status' = scanInstanceSet(s, "FINISHED")
              /\ proc' = [proc EXCEPT ![s] = "exited"]
              /\ UNCHANGED work
    /\ UNCHANGED <<launched, nextId, start, stop, fpVars, registryVars, cfgVars, vbVars, rslv, webVars>>

\* an error of the orchestrator is caught: the scan ends in ERROR-FAILED
ScannerFail(s) ==
    /\ proc[s] = "running"
    /\ status[s] = "RUNNING"
    /\ status' = scanInstanceSet(s, "ERROR-FAILED")
    /\ proc' = [proc EXCEPT ![s] = "exited"]
    /\ work' = [work EXCEPT ![s] = 0]
    /\ UNCHANGED <<launched, nextId, start, stop, fpVars, registryVars, cfgVars, vbVars, rslv, webVars>>

\* the scanner is a daemonic child process (p.daemon = True) of which startscan
\* keeps no handle: it can be terminated, with the web server or by the system,
\* at any point, and then writes nothing more
ScannerKilled(s) ==
    /\ proc[s] \in {"spawned", "starting", "running"}
    /\ proc' = [proc EXCEPT ![s] = "dead"]
    /\ work' = [work EXCEPT ![s] = 0]
    /\ UNCHANGED <<status, launched, nextId, start, stop, fpVars, registryVars, cfgVars, vbVars, rslv, webVars>>

\* -------------------------------------------------------------- rerunscan

\* f'"{scantarget}"'
Quoted(target) ==
    CASE target = "John Doe" -> "\"John Doe\""
      [] target = "JohnDoe" -> "\"JohnDoe\""
      [] target = "johndoe" -> "\"johndoe\""
      [] OTHER -> target

\* rerunscan: the type of the stored target, tried again in quotes
RerunTargetType(scantarget) ==
    IF targetTypeFromString(scantarget) # None
      THEN targetTypeFromString(scantarget)
      ELSE targetTypeFromString(Quoted(scantarget))

\* rerunscan: the target as handed to the scanner
RerunTarget(targetType, scantarget) ==
    IF targetType \notin {"HUMAN_NAME", "BITCOIN_ADDRESS"}
      THEN Lower(scantarget) ELSE scantarget

\* rerunscan: the stored module list without the stdout module
RerunModules(modlist) ==
    IF "sfp__stor_stdout" \in Range(modlist)
      THEN RemoveFirst(modlist, "sfp__stor_stdout") ELSE modlist

\* rerunscan up to its wait for the scan to initialize. The scanner persists
\* the name, the target and the configuration ('_modulesenabled' included) it
\* was started with when it persists its scan instance
rerunscan(id, spawnok) ==
    LET info == launched[id]
        targetType == RerunTargetType(info.scantarget)
        scanId == nextId
    IN
    /\ start.pc = "idle"
    /\ IF scanInstanceGet(id) = None
         THEN /\ start' = [pc |-> "idle", op |-> "rerunscan", scanId |-> 0,
                           resp |-> <<"ERROR", "Invalid scan ID.">>, req |-> NoReq, src |-> 0]
              /\ UNCHANGED <<proc, launched, nextId, heap>>
         ELSE IF ~spawnok
         THEN /\ start' = [pc |-> "idle", op |-> "rerunscan", scanId |-> 0,
                           resp |-> <<"ERROR", "Scan failed">>, req |-> NoReq, src |-> 0]
              /\ UNCHANGED <<proc, launched, nextId, heap>>
         ELSE /\ scanId <= MaxScans
              /\ heap' = DeepcopyHeap(heap, config)
              /\ proc' = [proc EXCEPT ![scanId] = "spawned"]
              /\ launched' = [launched EXCEPT ![scanId] =
                    [scanname |-> info.scanname,
                     scantarget |-> RerunTarget(targetType, info.scantarget),
                     targetType |-> targetType,
                     modlist |-> RerunModules(info.modlist),
                     cfg |-> DeepcopyRef(heap, config),
                     snapshot |-> heap[config]]]
              /\ nextId' = nextId + 1
              /\ start' = [pc |-> "wait", op |-> "rerunscan", scanId |-> scanId,
                           resp |-> <<"", "">>, req |-> NoReq, src |-> id]
    /\ UNCHANGED <<status, work, stop, fpVars, registryVars, config, token, dbConfig,
                   setCall, vbVars, rslv, webVars>>

\* --------------------------------------------------------------- settings

\* the tokens random.SystemRandom().randint draws, as the strings str() gives
Tokens == {"11", "22"}

\* the tokens a request may carry: any string, "None" included
RequestTokens == Tokens \cup {"None"}

\* opts and optsraw: a new token is drawn and issued with the settings
opts(t) ==
    /\ token' = t
    /\ UNCHANGED <<status, fpVars, registryVars, heap, config, dbConfig, setCall,
                   vbVars, rslv, webVars, scanVars>>

optsraw(t) ==
    /\ token' = t
    /\ UNCHANGED <<status, fpVars, registryVars, heap, config, dbConfig, setCall,
                   vbVars, rslv, webVars, scanVars>>

\* the option dicts a request may carry: any options with any values
UserOpts == UNION {[d -> ConfigValues] : d \in SUBSET ConfigOptions}

\* allopts: "RESET", a string json.loads rejects, or the JSON of an option dict
SettingsRequests ==
    {[kind |-> "reset", opts |-> EmptyOpts], [kind |-> "bad", opts |-> EmptyOpts]}
    \cup {[kind |-> "opts", opts |-> o] : o \in UserOpts}

\* the dicts the settings requests have made so far
SavedDicts == Len(heap) - nextId

\* cleanopts[opt] = self.cleanUserInput([useropts[opt]])[0]
CleanOpts(useropts) == [o \in DOMAIN useropts |-> cleanUserInput(useropts[o])]

\* savesettings and savesettingsraw after the token check. dbok: the database
\* operation (configClear, configSet) raises no exception
SaveSettings(op, req, tok, dbok) ==
    LET before == [op |-> op, kind |-> req.kind, tok |-> tok, resp |-> <<"", "">>, config |-> heap[config],
                   dbConfig |-> dbConfig]
        currentopts == DeepcopyRef(heap, config)
        copied == DeepcopyHeap(heap, config)
    IN
    IF req.kind = "reset"
      THEN \* reset_settings
           IF dbok
             THEN /\ dbConfig' = EmptyOpts
                  /\ heap' = DeepcopyHeap(heap, DefaultConfigRef)
                  /\ config' = DeepcopyRef(heap, DefaultConfigRef)
                  /\ setCall' = [before EXCEPT !.resp = <<"SUCCESS", "">>]
             ELSE /\ setCall' = [before EXCEPT !.resp = <<"ERROR", "Failed to reset settings">>]
                  /\ UNCHANGED <<heap, config, dbConfig>>
    ELSE IF req.kind = "bad"
      THEN /\ setCall' = [before EXCEPT !.resp = <<"ERROR", "Processing one or more of your inputs failed">>]
           /\ UNCHANGED <<heap, config, dbConfig>>
    ELSE /\ heap' = configUnserialize(copied, CleanOpts(req.opts), currentopts)
         /\ config' = currentopts
         /\ IF dbok
              THEN /\ dbConfig' = heap'[config']
                   /\ setCall' = [before EXCEPT !.resp = <<"SUCCESS", "">>]
              ELSE /\ setCall' = [before EXCEPT !.resp = <<"ERROR", "Processing one or more of your inputs failed">>]
                   /\ UNCHANGED dbConfig

TokenMatches_always(tok, selftoken) == TRUE
\* "if str(token) != str(self.token)": both are compared as strings
TokenMatches(tok, selftoken) == tok = selftoken

\* a settings request: the token of the request is compared with self.token,
\* which is the class attribute None until opts or optsraw has drawn a token
SettingsRequest(op, req, tok, dbok) ==
    /\ SavedDicts < MaxSaves
    /\ IF ~TokenMatches(tok, token)
         THEN /\ setCall' = [op |-> op, kind |-> req.kind, tok |-> tok,
                             resp |-> <<"ERROR", "Invalid token">>,
                             config |-> heap[config], dbConfig |-> dbConfig]
              /\ UNCHANGED <<heap, config, dbConfig>>
         ELSE SaveSettings(op, req, tok, dbok)
    /\ UNCHANGED <<status, fpVars, registryVars, token, vbVars, rslv, webVars, scanVars>>

savesettings(req, tok, dbok) == SettingsRequest("savesettings", req, tok, dbok)

savesettingsraw(req, tok, dbok) == SettingsRequest("savesettingsraw", req, tok, dbok)

\* ------------------------------------------------- sfp_voipbl (module)

\* the instances of the module made in the process
Instances == 1..MaxInstances

\* malchecks: the one list, its id, its url and the checks it is used for
ListUrl == "http://www.voipbl.org/update"
ModuleName == "sfp_voipbl"

\* the data of the events delivered: addresses and netblocks
Ips == {"10.0.0.77"}
Netblocks == {"1.2.3.0/24"}

\* watchedEvents() with the data each type carries
InputEvents ==
    {[type |-> t, data |-> d] : t \in {"IP_ADDRESS", "AFFILIATE_IPADDR"}, d \in Ips}
    \cup {[type |-> t, data |-> d] :
             t \in {"NETBLOCK_OWNER", "NETBLOCK_MEMBER"}, d \in Netblocks}

\* the contents the list may have when it is fetched, line by line
ListContents ==
    {<<"# comment", "10.0.0.77/32">>,
     <<"999.0.0.1/32", "10.0.0.77/32", "1.2.3.45/32", "1.2.3.46/32">>,
     <<"1.2.3.4/32", "10.0.0.0/24">>}

\* re.findall(pat, line) for the pattern (\d+\.\d+\.\d+\.\d+)\/ : the address in
\* front of the slash, "" when the line has none
RegexIp(line) ==
    CASE line = "10.0.0.77/32" -> "10.0.0.77"
      [] line = "1.2.3.45/32" -> "1.2.3.45"
      [] line = "1.2.3.46/32" -> "1.2.3.46"
      [] line = "1.2.3.4/32" -> "1.2.3.4"
      [] line = "10.0.0.0/24" -> "10.0.0.0"
      [] line = "999.0.0.1/32" -> "999.0.0.1"
      [] OTHER -> ""

\* "for line in content.split('\n')": iplist, the addresses of the lines that
\* have one
RECURSIVE Iplist(_)
Iplist(content) ==
    IF content = <<>> THEN <<>>
    ELSE IF RegexIp(Head(content)) # "" THEN <<RegexIp(Head(content))>> \o Iplist(Tail(content))
    ELSE Iplist(Tail(content))

\* IPAddress(ip) raises for a string that is no address
IsAddress(ip) == ip # "999.0.0.1"

\* IPAddress(ip) in IPNetwork(target)
InNetwork(ip, target) ==
    target = "1.2.3.0/24" /\ ip \in {"1.2.3.4", "1.2.3.45", "1.2.3.46"}

\* re.match(rxTgt, line) with rxTgt = target + "\/": the line starts with the
\* target followed by a slash
MatchesTarget(line, target) == RegexIp(line) = target

\* the declared default options of the module
DefaultOpts == [checkaffiliates |-> TRUE, cacheperiod |-> 18,
                checknetblocks |-> TRUE, checksubnets |-> TRUE]
OptNames == DOMAIN DefaultOpts

\* the option overrides a scan may come with
ModuleUserOpts ==
    {[o \in {} |-> TRUE],
     [o \in {"checkaffiliates", "checknetblocks", "checksubnets"} |-> FALSE]}

\* d with the options of userOpts set to their values in userOpts
Override(d, userOpts) ==
    [o \in OptNames |-> IF o \in DOMAIN userOpts THEN userOpts[o] ELSE d[o]]

\* an instance before setup: results is None. seen, looked and emitted record
\* the data received, the data looked up and the events notified since setup,
\* dupLookup and dupEmit that a lookup or an event was repeated since setup,
\* prior the data looked up before the setup
NoInstance == [setup |-> FALSE, results |-> {}, seen |-> {}, looked |-> {},
               emitted |-> {}, dupLookup |-> FALSE, dupEmit |-> FALSE,
               prior |-> {}]

\* no setup call was made
NoSetupCall == [done |-> FALSE, userOpts |-> [o \in {} |-> TRUE]]

\* outcome: how the last call ended. content: the lines the call under way
\* matched an address against. didFetch: the call under way asked fetchUrl for
\* the list. fetchFailed: the list could not be
\* fetched. raised: an entry of the list could not be parsed. seenBefore: the
\* instance had received the data since its setup. afterStop: the candidates
\* the call under way examined while the stop signal was set. afterFailure: the call before, on
\* the same instance, met a fetch or parse failure
VbIdle == [pc |-> "idle", inst |-> 0, event |-> [type |-> "", data |-> ""],
           outcome |-> "", content |-> <<>>, didFetch |-> FALSE,
           fetchFailed |-> FALSE, iplist |-> <<>>,
           idx |-> 0, url |-> None, afterStop |-> 0, raised |-> FALSE,
           seenBefore |-> FALSE, afterFailure |-> FALSE]

NoCache == [valid |-> FALSE, content |-> <<>>]

\* the workers that may be inside resourceList at the same time: the threads
\* and processes of the scans that use the module
Workers == 1..MaxWorkers

\* a worker outside resourceList
NoLookup == [pc |-> "idle", content |-> <<>>]

VbVarsIdle ==
    /\ vbOpts = DefaultOpts
    /\ inst = [i \in Instances |-> NoInstance]
    /\ cache = NoCache
    /\ stopped = [i \in Instances |-> FALSE]
    /\ calls = 0
    /\ setupCall = NoSetupCall
    /\ fetchers = [w \in Workers |-> NoLookup]
    /\ vb = VbIdle
    /\ delivered = [i \in Instances |-> {}]

SetupResults_kept(old) == old
\* self.results = self.tempStorage(): a new, empty dict
SetupResults(old) == {}

\* self.opts[opt] = userOpts[opt] for every opt of userOpts: self.opts is the
\* dict of the class, no instance has one of its own
SetupOpts(d, userOpts) == Override(d, userOpts)

\* setup(sfc, userOpts) on an instance that handles no event; the instances
\* are numbered in the order of their first setup
setup(i, userOpts) ==
    /\ (vb.pc = "idle" \/ vb.inst # i)
    /\ \A j \in 1..(i - 1) : inst[j].setup
    /\ vbOpts' = SetupOpts(vbOpts, userOpts)
    /\ inst' = [inst EXCEPT ![i] =
                  [NoInstance EXCEPT !.setup = TRUE,
                                     !.results = SetupResults(inst[i].results),
                                     !.prior = inst[i].prior \cup inst[i].looked]]
    /\ setupCall' = [done |-> TRUE, userOpts |-> userOpts]
    /\ delivered' = [delivered EXCEPT ![i] = {}]
    /\ UNCHANGED <<cache, stopped, calls, fetchers, vb>>
    /\ UNCHANGED <<status, fpVars, registryVars, cfgVars, rslv, webVars, scanVars>>

\* ---------------------------------------------- sfp_voipbl (handleEvent)

AlreadyChecked_never(results, eventData) == FALSE
\* if eventData in self.results
AlreadyChecked(results, eventData) == eventData \in results

\* the option checks of handleEvent, on the options of the class
OptionDisabled(o, eventName) ==
    \/ eventName = "AFFILIATE_IPADDR" /\ ~o.checkaffiliates
    \/ eventName = "NETBLOCK_OWNER" /\ ~o.checknetblocks
    \/ eventName = "NETBLOCK_MEMBER" /\ ~o.checksubnets

\* typeId and evtType of an event name
TypeId(eventName) ==
    IF eventName \in {"IP_ADDRESS", "AFFILIATE_IPADDR"} THEN "ip" ELSE "netblock"

EvtType(eventName) ==
    CASE eventName = "IP_ADDRESS" -> "MALICIOUS_IPADDR"
      [] eventName = "AFFILIATE_IPADDR" -> "MALICIOUS_AFFILIATE_IPADDR"
      [] eventName = "NETBLOCK_OWNER" -> "MALICIOUS_NETBLOCK"
      [] eventName = "NETBLOCK_MEMBER" -> "MALICIOUS_SUBNET"

\* SpiderFootEvent(evtType, text, self.__name__, event); the text names the
\* check, the data of the input and the url
CheckName == "VOIPBL Publicly Accessible PBX List"
MaliciousEvent_orphan(event, url) ==
    [type |-> EvtType(event.type),
     data |-> [check |-> CheckName, eventData |-> event.data, url |-> url],
     module |-> ModuleName, sourceEvent |-> [type |-> "ROOT", data |-> ""]]
MaliciousEvent(event, url) ==
    [type |-> EvtType(event.type),
     data |-> [check |-> CheckName, eventData |-> event.data, url |-> url],
     module |-> ModuleName, sourceEvent |-> event]

\* the answers of fetchUrl: a content, or no content
FetchFailed == <<"no content">>
FetchResults == ListContents \cup {FetchFailed}

\* resourceList for an address: the url when a line starts with the target and
\* a slash
IpLookup(content, target) ==
    IF \E k \in 1..Len(content) : MatchesTarget(content[k], target)
      THEN ListUrl ELSE None

ScanCandidate_uncaught(ip, target) ==
    IF Len(ip) < 8 THEN "continue"
    ELSE IF ~IsAddress(ip) THEN "raise"
    ELSE IF InNetwork(ip, target) THEN "return" ELSE "continue"
\* the body of "for ip in iplist": short candidates are passed over, an error
\* of IPAddress or IPNetwork is caught and the candidate passed over, a
\* candidate inside the netblock ends the loop
ScanCandidate(ip, target) ==
    IF Len(ip) < 8 THEN "continue"
    ELSE IF ~IsAddress(ip) THEN "continue"
    ELSE IF InNetwork(ip, target) THEN "return" ELSE "continue"

CacheMiss_always(c) == TRUE
\* data['content'] = self.sf.cacheGet(...); if data['content'] is None
CacheMiss(c) == ~c.valid

StopObserved_ignored(s) == FALSE
\* if self.checkForStop()
StopObserved(s) == s

\* handleEvent up to the loop over the candidates (netblock) or up to the poll
\* of the stop signal (address). fetched: what fetchUrl answers if it is asked
HandleEventBody(i, event, fetched) ==
    LET eventData == event.data
        call == [VbIdle EXCEPT !.inst = i, !.event = event,
                               !.seenBefore = eventData \in inst[i].seen,
                               !.afterFailure =
                                   vb.inst = i /\ (vb.fetchFailed \/ vb.raised)]
        miss == CacheMiss(cache)
        content == IF miss THEN fetched ELSE cache.content
    IN
    /\ vb.pc = "idle"
    /\ inst[i].setup
    /\ IF AlreadyChecked(inst[i].results, eventData)
         THEN /\ vb' = [call EXCEPT !.outcome = "skipped"]
              /\ inst' = [inst EXCEPT ![i].seen = @ \cup {eventData}]
              /\ UNCHANGED cache
       ELSE IF OptionDisabled(vbOpts, event.type)
         THEN /\ vb' = [call EXCEPT !.outcome = "disabled"]
              /\ inst' = [inst EXCEPT ![i].seen = @ \cup {eventData},
                                      ![i].results = @ \cup {eventData}]
              /\ UNCHANGED cache
       ELSE IF miss /\ fetched = FetchFailed
         THEN /\ vb' = [call EXCEPT !.pc = "poll", !.fetchFailed = TRUE,
                                    !.didFetch = TRUE]
              /\ inst' = [inst EXCEPT ![i].seen = @ \cup {eventData},
                                      ![i].results = @ \cup {eventData},
                                      ![i].looked = @ \cup {eventData},
                                      ![i].dupLookup = @ \/ eventData \in inst[i].looked]
              /\ UNCHANGED cache
       ELSE /\ cache' = [valid |-> TRUE, content |-> content]
            /\ inst' = [inst EXCEPT ![i].seen = @ \cup {eventData},
                                    ![i].results = @ \cup {eventData},
                                    ![i].looked = @ \cup {eventData},
                                    ![i].dupLookup = @ \/ eventData \in inst[i].looked]
            /\ IF TypeId(event.type) = "netblock"
                 THEN vb' = [call EXCEPT !.pc = "scan", !.didFetch = miss,
                                         !.iplist = Iplist(content), !.idx = 1]
                 ELSE vb' = [call EXCEPT !.pc = "poll", !.didFetch = miss,
                                         !.content = content,
                                         !.url = IpLookup(content, eventData)]
    /\ UNCHANGED <<vbOpts, stopped, setupCall, fetchers>>
    /\ UNCHANGED <<status, fpVars, registryVars, cfgVars, rslv, webVars, scanVars>>

\* the scan delivers any watched event to the instance, MaxCalls events in all
HandleEventBegin(i, event, fetched) ==
    /\ calls < MaxCalls
    /\ calls' = calls + 1
    /\ HandleEventBody(i, event, fetched)
    /\ UNCHANGED delivered

\* the scan delivers to the instance an event it has not delivered to it
\* since the setup of the instance
DeliverOnce(i, event, fetched) ==
    /\ event \notin delivered[i]
    /\ delivered' = [delivered EXCEPT ![i] = @ \cup {event}]
    /\ HandleEventBody(i, event, fetched)
    /\ UNCHANGED calls

\* one round of "for ip in iplist", or its end: return None
ScanStep ==
    LET i == vb.inst
        target == vb.event.data
    IN
    /\ vb.pc = "scan"
    /\ IF vb.idx > Len(vb.iplist)
         THEN /\ vb' = [vb EXCEPT !.pc = "poll"]
              /\ UNCHANGED inst
         ELSE LET ip == vb.iplist[vb.idx]
                  examined == [vb EXCEPT !.afterStop = @ + (IF stopped[i] THEN 1 ELSE 0),
                                         !.raised = @ \/ (Len(ip) >= 8 /\ ~IsAddress(ip))]
                  step == ScanCandidate(ip, target)
              IN
              /\ vb' = CASE step = "return" -> [examined EXCEPT !.pc = "poll", !.url = ListUrl]
                          [] step = "raise" -> [examined EXCEPT !.pc = "idle", !.outcome = "exception"]
                          [] OTHER -> [examined EXCEPT !.idx = @ + 1]
              /\ UNCHANGED inst
    /\ UNCHANGED <<vbOpts, cache, stopped, calls, setupCall, fetchers, delivered>>
    /\ UNCHANGED <<status, fpVars, registryVars, cfgVars, rslv, webVars, scanVars>>

\* "if self.checkForStop(): return", then the event is notified if there is a url
HandleEventPoll ==
    LET i == vb.inst IN
    /\ vb.pc = "poll"
    /\ IF StopObserved(stopped[i])
         THEN /\ vb' = [vb EXCEPT !.pc = "idle", !.outcome = "stopped",
                                  !.idx = 0, !.afterStop = 0,
                                  !.content = <<>>, !.didFetch = FALSE]
              /\ UNCHANGED inst
       ELSE IF vb.url # None
         THEN /\ vb' = [vb EXCEPT !.pc = "idle", !.outcome = "emitted",
                                  !.idx = 0, !.afterStop = 0,
                                  !.content = <<>>, !.didFetch = FALSE]
              /\ inst' = [inst EXCEPT
                    ![i].emitted = @ \cup {MaliciousEvent(vb.event, vb.url)},
                    ![i].dupEmit = @ \/ MaliciousEvent(vb.event, vb.url) \in inst[i].emitted]
       ELSE /\ vb' = [vb EXCEPT !.pc = "idle", !.outcome = "none",
                                !.idx = 0, !.afterStop = 0,
                                !.content = <<>>, !.didFetch = FALSE]
            /\ UNCHANGED inst
    /\ UNCHANGED <<vbOpts, cache, stopped, calls, setupCall, fetchers, delivered>>
    /\ UNCHANGED <<status, fpVars, registryVars, cfgVars, rslv, webVars, scanVars>>

\* the scan of instance i is asked to stop while the instance handles an
\* event: checkForStop() answers True from now on
SignalStop(i) ==
    /\ vb.inst = i
    /\ vb.pc # "idle"
    /\ ~stopped[i]
    /\ stopped' = [stopped EXCEPT ![i] = TRUE]
    /\ UNCHANGED <<vbOpts, inst, cache, calls, setupCall, fetchers, vb, delivered>>
    /\ UNCHANGED <<status, fpVars, registryVars, cfgVars, rslv, webVars, scanVars>>

\* the cached list gets older than cacheperiod hours
CacheExpire ==
    /\ cache.valid
    /\ vb.pc = "idle"
    /\ cache' = NoCache
    /\ UNCHANGED <<vbOpts, inst, stopped, calls, setupCall, fetchers, vb, delivered>>
    /\ UNCHANGED <<status, fpVars, registryVars, cfgVars, rslv, webVars, scanVars>>

\* ------------------------------------- sfp_voipbl (concurrent lookups)

\* resourceList, step by step, for a worker that runs beside others. Nothing
\* in resourceList, cacheGet, fetchUrl or cachePut makes the workers wait for
\* one another.

\* data['content'] = self.sf.cacheGet("sfmal_" + cid, cacheperiod)
LookupCacheGet(w) ==
    /\ fetchers[w].pc = "idle"
    /\ fetchers' = [fetchers EXCEPT ![w] =
                      IF CacheMiss(cache) THEN [pc |-> "miss", content |-> <<>>]
                      ELSE [pc |-> "done", content |-> cache.content]]
    /\ UNCHANGED <<vbOpts, inst, cache, stopped, calls, setupCall, vb, delivered>>
    /\ UNCHANGED <<status, fpVars, registryVars, cfgVars, rslv, webVars, scanVars>>

\* if data['content'] is None: self.sf.fetchUrl(url, ...) is called
LookupFetch(w) ==
    /\ fetchers[w].pc = "miss"
    /\ fetchers' = [fetchers EXCEPT ![w].pc = "fetching"]
    /\ UNCHANGED <<vbOpts, inst, cache, stopped, calls, setupCall, vb, delivered>>
    /\ UNCHANGED <<status, fpVars, registryVars, cfgVars, rslv, webVars, scanVars>>

\* fetchUrl returns: no content (return None) or a content, which is cached
LookupFetched(w, fetched) ==
    /\ fetchers[w].pc = "fetching"
    /\ fetchers' = [fetchers EXCEPT ![w] = [pc |-> "done", content |-> fetched]]
    /\ IF fetched = FetchFailed
         THEN UNCHANGED cache
         ELSE cache' = [valid |-> TRUE, content |-> fetched]
    /\ UNCHANGED <<vbOpts, inst, stopped, calls, setupCall, vb, delivered>>
    /\ UNCHANGED <<status, fpVars, registryVars, cfgVars, rslv, webVars, scanVars>>

\* the rest of resourceList reads data['content'] only: the worker returns
LookupReturn(w) ==
    /\ fetchers[w].pc = "done"
    /\ fetchers' = [fetchers EXCEPT ![w] = NoLookup]
    /\ UNCHANGED <<vbOpts, inst, cache, stopped, calls, setupCall, vb, delivered>>
    /\ UNCHANGED <<status, fpVars, registryVars, cfgVars, rslv, webVars, scanVars>>

\* ------------------------------------ specification: module selection

\* the type lists requested: known types and one type no module produces
RequestedTypes == {{"X"}, {"Z"}, {"X", "Y"}, {"Z", "W"}}

\* the registries tried: a data module produces any set of types and watches
\* at most MaxWatched of them
MaxWatched == 1
WatchLists == {w \in SUBSET Types : Cardinality(w) <= MaxWatched}

InitResolve ==
    /\ status = [s \in ScanIds |-> None]
    /\ evParent = <<0>>
    /\ evFp = <<0>>
    /\ fpCall = NoCall
    /\ produces \in {[m \in Modules |-> IF m \in DataModules THEN f[m] ELSE {}] :
                        f \in [DataModules -> SUBSET Types]}
    /\ consumes \in {[m \in Modules |-> IF m \in DataModules THEN f[m] ELSE {}] :
                        f \in [DataModules -> WatchLists]}
    /\ rslv = RslvIdle
    /\ WebVarsIdle
    /\ ScanVarsIdle
    /\ CfgVarsIdle
    /\ VbVarsIdle

NextResolve ==
    \/ \E typesx \in RequestedTypes : ResolveByTypes(typesx)
    \/ ExpandStep
    \/ ExpandExit

SpecResolve == InitResolve /\ [][NextResolve]_vars

\* ------------------------------------------ specification: false positives

InitFP ==
    /\ status = [s \in ScanIds |-> IF s = FpScan THEN "RUNNING" ELSE None]
    /\ evParent = <<0>>
    /\ evFp = <<0>>
    /\ fpCall = NoCall
    /\ produces = ExampleProduces
    /\ consumes = ExampleConsumes
    /\ rslv = RslvIdle
    /\ WebVarsIdle
    /\ ScanVarsIdle
    /\ CfgVarsIdle
    /\ VbVarsIdle

\* the result id lists tried: single ids and batches of up to MaxBatch ids
FpIdLists == {ids \in SUBSET EventIds : Cardinality(ids) <= MaxBatch}

\* the requests tried: every well-formed flag and unflag request, and requests
\* with a single fault (an fp argument that is neither "0" nor "1", result ids
\* that are no JSON, an unknown scan id, a failing database update)
FpRequests ==
    {[id |-> FpScan, ids |-> i, fp |-> f, jsonok |-> TRUE, dbok |-> TRUE] :
        i \in FpIdLists, f \in {"0", "1"}}
    \cup {[id |-> FpScan, ids |-> {1}, fp |-> "2", jsonok |-> TRUE, dbok |-> TRUE]}
    \cup {[id |-> FpScan, ids |-> {}, fp |-> "1", jsonok |-> FALSE, dbok |-> TRUE]}
    \cup {[id |-> FpScan, ids |-> {1}, fp |-> f, jsonok |-> TRUE, dbok |-> FALSE] :
        f \in {"0", "1"}}
    \cup {[id |-> s, ids |-> {1}, fp |-> "1", jsonok |-> TRUE, dbok |-> TRUE] :
        s \in ScanIds \ {FpScan}}

NextFP ==
    \/ \E parent \in EventIds : StoreEvent(parent)
    \/ \E st \in {"FINISHED", "ABORTED", "ERROR-FAILED"} : EndScan(st)
    \/ \E r \in FpRequests : resultsetfp(r.id, r.ids, r.fp, r.jsonok, r.dbok)

SpecFP == InitFP /\ [][NextFP]_vars

\* ---------------------------------- specification: graph export and flags

\* the scans a multi-scan graph export is asked for
VizLists == {<<FpScan>>, <<FpScan, FpScan>>} \cup {<<FpScan, s>> : s \in ScanIds \ {FpScan}}

\* events are stored, the scan ends, single events are flagged and unflagged,
\* and the graph is exported in between
NextViz ==
    \/ \E parent \in EventIds : StoreEvent(parent)
    \/ EndScan("FINISHED")
    \/ \E e \in EventIds, fp \in {"0", "1"} : resultsetfp(FpScan, {e}, fp, TRUE, TRUE)
    \/ \E id \in ScanIds, gexf \in {"0", "1"} : scanviz(id, gexf)
    \/ \E ids \in VizLists, gexf \in {"0", "1"} : scanvizmulti(ids, gexf)

SpecViz == InitFP /\ [][NextViz]_vars

\* ------------------------------------------- specification: scan lifecycle

InitScan ==
    /\ status = [s \in ScanIds |-> None]
    /\ evParent = <<0>>
    /\ evFp = <<0>>
    /\ fpCall = NoCall
    /\ produces = ExampleProduces
    /\ consumes = ExampleConsumes
    /\ rslv = RslvIdle
    /\ WebVarsIdle
    /\ ScanVarsIdle
    /\ CfgVarsIdle
    /\ VbVarsIdle

\* the stopscan arguments tried: up to MaxStopIds ids, of scans that exist or not
StopLists == UNION {[1..n -> ScanIds] : n \in 0..MaxStopIds}

\* the web threads; the requests startscan rejects are those of SpecStart
WebScan ==
    \/ startscan("scan", "example.com", <<"sfp_a">>, {}, "", TRUE)
    \/ StartscanReturn
    \/ \E ids \in StopLists : StopscanBegin(ids)
    \/ StopscanCheck
    \/ StopscanSet

\* a scanner process that runs to its end
Scanner(s) ==
    \/ ScannerInit(s)
    \/ \E n \in 0..MaxWork : ScannerRun(s, n)
    \/ ScannerDispatch(s)
    \/ ScannerFail(s)

NextScanAlive == WebScan \/ \E s \in ScanIds : Scanner(s)

NextScan == NextScanAlive \/ \E s \in ScanIds : ScannerKilled(s)

SpecScan == InitScan /\ [][NextScan]_vars

\* what is scheduled keeps running: a web thread inside a handler, and a
\* scanner process that has not been terminated
FairnessScan ==
    /\ WF_vars(StartscanReturn)
    /\ WF_vars(StopscanCheck)
    /\ WF_vars(StopscanSet)
    /\ \A s \in ScanIds :
          /\ WF_vars(ScannerInit(s))
          /\ WF_vars(\E n \in 0..MaxWork : ScannerRun(s, n))
          /\ WF_vars(ScannerDispatch(s))

\* every behaviour, scanners that are terminated included
FairScan == SpecScan /\ FairnessScan

\* the behaviours in which no scanner process is terminated
SpecScanAlive == InitScan /\ [][NextScanAlive]_vars

FairScanAlive == SpecScanAlive /\ FairnessScan

\* ------------------------------------------- specification: scan deletion

\* the scandelete arguments tried: no id, one id and two ids, of scans that
\* exist or not
DeleteLists == {<<>>} \cup {<<s>> : s \in ScanIds} \cup {<<s, t>> : s, t \in ScanIds}

\* scans are started and deleted while their scanners run, and the first scan
\* is stopped; a scan has no event to handle beyond ROOT
NextDelete ==
    \/ startscan("scan", "example.com", <<"sfp_a">>, {}, "", TRUE)
    \/ StartscanReturn
    \/ StopscanBegin(<<1>>)
    \/ StopscanCheck
    \/ StopscanSet
    \/ \E ids \in DeleteLists : ScandeleteBegin(ids)
    \/ ScandeleteCheck
    \/ ScandeleteDelete
    \/ \E s \in ScanIds : ScannerInit(s)
    \/ \E s \in ScanIds : ScannerRun(s, 0)
    \/ \E s \in ScanIds : ScannerDispatch(s)
    \/ \E s \in ScanIds : ScannerFail(s)

SpecDelete == InitScan /\ [][NextDelete]_vars

\* -------------------------------------------- specification: result views

\* the event types a view is asked for
RequestedEventTypes == {"ALL", "ROOT", "IP_ADDRESS"}

\* the scans a multi-scan export is asked for: one scan, or two
ExportedScans ==
    {<<c>> : c \in ScanContents} \cup {<<c, d>> : c, d \in ScanContents}

\* every view is asked for every requested type of every scan content
NextViews ==
    \/ \E c \in ScanContents, by \in {"type", "module"} : scansummary(c, by)
    \/ \E c \in ScanContents, t \in RequestedEventTypes : scaneventresults(c, t)
    \/ \E c \in ScanContents, t \in RequestedEventTypes : scaneventresultsunique(c, t)
    \/ \E c \in ScanContents, t \in RequestedEventTypes : scaneventresultexport(c, t)
    \/ \E scans \in ExportedScans : scaneventresultexportmulti(scans)
    \/ \E scans \in ExportedScans : scanexportjsonmulti(scans)

SpecViews == InitScan /\ [][NextViews]_vars

\* ---------------------------------------- specification: startscan requests

\* the module lists, type lists and use cases a request may carry
ModuleLists == {<<>>, <<"sfp_a">>, <<"sfp_b", "sfp_a">>, <<"sfp__stor_stdout">>,
                <<"sfp__stor_stdout", "sfp_c", "sfp__stor_stdout">>}
TypeLists == {{}, {"X"}, {"Y"}, {"Z"}}
UseCases == {"", "all", "passive", "nosuch"}

\* the requests tried: every selection with a well-formed name and target, and
\* every name and target with one selection, with and without a failing spawn
StartRequests ==
    {[scanname |-> "scan", scantarget |-> "Example.COM", modulelist |-> m,
      typelist |-> t, usecase |-> u, spawnok |-> TRUE] :
        m \in ModuleLists, t \in TypeLists, u \in UseCases}
    \cup {[scanname |-> n, scantarget |-> t, modulelist |-> <<"sfp_a">>,
           typelist |-> {}, usecase |-> "", spawnok |-> ok] :
        n \in ScanNames, t \in Targets, ok \in BOOLEAN}

NextStart ==
    \/ \E r \in StartRequests :
            startscan(r.scanname, r.scantarget, r.modulelist, r.typelist,
                      r.usecase, r.spawnok)
    \/ StartscanReturn
    \/ \E s \in ScanIds : ScannerInit(s)
    \/ \E s \in ScanIds : ScannerKilled(s)

SpecStart == InitScan /\ [][NextStart]_vars

\* --------------------------------------------- specification: sfp_voipbl

\* the module is loaded, no instance is set up, nothing else goes on
InitVoipbl == InitScan

NextVoipbl ==
    \/ \E i \in Instances, userOpts \in ModuleUserOpts : setup(i, userOpts)
    \/ \E i \in Instances, event \in InputEvents :
            \E fetched \in (IF cache.valid THEN {FetchFailed} ELSE FetchResults) :
                HandleEventBegin(i, event, fetched)
    \/ ScanStep
    \/ HandleEventPoll
    \/ \E i \in Instances : SignalStop(i)
    \/ CacheExpire

SpecVoipbl == InitVoipbl /\ [][NextVoipbl]_vars

\* Scans that differ in the order of delivery only: the instances are set up
\* before the first event is delivered, the list keeps the content of its
\* first fetch, every instance is delivered each watched event at most once,
\* in any order, and no scan is stopped
NextOrder ==
    \/ \E i \in Instances, userOpts \in ModuleUserOpts :
            /\ \A j \in Instances : delivered[j] = {}
            /\ setup(i, userOpts)
    \/ \E i \in Instances, event \in InputEvents :
            \E fetched \in (IF cache.valid THEN {cache.content} ELSE ListContents) :
                /\ \A j \in Instances : inst[j].setup
                /\ DeliverOnce(i, event, fetched)
    \/ ScanStep
    \/ HandleEventPoll

SpecOrder == InitVoipbl /\ [][NextOrder]_vars

\* ------------------------------ specification: concurrent list lookups

NextLookup ==
    \/ \E w \in Workers : LookupCacheGet(w)
    \/ \E w \in Workers : LookupFetch(w)
    \/ \E w \in Workers, fetched \in FetchResults : LookupFetched(w, fetched)
    \/ \E w \in Workers : LookupReturn(w)
    \/ CacheExpire

SpecLookup == InitVoipbl /\ [][NextLookup]_vars

\* ----------------------------------- specification: scans and settings

\* the requests tried with a token: every request with the token self.token
\* holds, one of each kind with another token (such a request is refused before
\* it is looked at, and the database is not reached)
TriedRequests(tok) ==
    IF tok = token THEN SettingsRequests
    ELSE {[kind |-> "reset", opts |-> EmptyOpts], [kind |-> "bad", opts |-> EmptyOpts],
          [kind |-> "opts", opts |-> [o \in {"_debug"} |-> "1"]]}
TriedDbOutcomes(tok) == IF tok = token THEN BOOLEAN ELSE {TRUE}

\* scans are started and rerun while the settings are read, saved and reset
NextConfig ==
    \/ \E ok \in BOOLEAN : startscan("scan", "example.com", <<"sfp_a">>, {}, "", ok)
    \/ StartscanReturn
    \/ \E s \in ScanIds : ScannerInit(s)
    \/ \E id \in ScanIds, ok \in BOOLEAN : rerunscan(id, ok)
    \/ \E t \in Tokens : opts(t)
    \/ \E t \in Tokens : optsraw(t)
    \/ \E tok \in RequestTokens :
         \E req \in TriedRequests(tok), dbok \in TriedDbOutcomes(tok) :
            savesettings(req, tok, dbok)
    \/ \E tok \in RequestTokens :
         \E req \in TriedRequests(tok), dbok \in TriedDbOutcomes(tok) :
            savesettingsraw(req, tok, dbok)

\* the web UI is constructed with or without a saved configuration
InitConfig ==
    /\ status = [s \in ScanIds |-> None]
    /\ evParent = <<0>>
    /\ evFp = <<0>>
    /\ fpCall = NoCall
    /\ produces = ExampleProduces
    /\ consumes = ExampleConsumes
    /\ rslv = RslvIdle
    /\ WebVarsIdle
    /\ ScanVarsIdle
    /\ \E saved \in SavedAtStart : CfgVarsStart(saved)
    /\ VbVarsIdle

SpecConfig == InitConfig /\ [][NextConfig]_vars

\* the targets of the scans that are run again: a host name in lower and in
\* mixed case, a human name and a user name, the names in quotes as startscan
\* expects them
RerunTargets == {"example.com", "Example.COM", "\"John Doe\"", "\"JohnDoe\""}

NextRerun ==
    \/ \E target \in RerunTargets, ok \in BOOLEAN :
          startscan("scan", target, <<"sfp_a">>, {}, "", ok)
    \/ StartscanReturn
    \/ \E s \in ScanIds : ScannerInit(s)
    \/ \E id \in ScanIds, ok \in BOOLEAN : rerunscan(id, ok)

SpecRerun == InitScan /\ [][NextRerun]_vars

\* ------------------------------------------------ claims: false positives

\* the last step handled a well-formed resultsetfp(fp) request on a finished scan
FpHandled(fp) ==
    /\ fpCall.op = "resultsetfp"
    /\ fpCall.fp = fp
    /\ fpCall.jsonok
    /\ scanInstanceGet(fpCall.id) \in {"ABORTED", "FINISHED", "ERROR-FAILED"}

\* the stored events among the result ids of the last request
FpTargets == fpCall.ids \cap StoredEvents(fpCall.id)

\* C1: an unflag request (fp=0) on a finished scan is rejected with a WARNING,
\* and changes no false-positive flag, whenever some ancestor (at any depth) of
\* some target event was flagged when the request was made.
C1_UnflagBelowFlaggedAncestorRejected ==
    (/\ FpHandled("0")
     /\ \E t \in FpTargets : \E a \in AncestorsOf(t) : fpCall.before[a] = 1)
    => (fpCall.resp[1] = "WARNING" /\ evFp = fpCall.before)

\* an unflag request was rejected for a target whose direct parent has a flagged
\* parent of its own
C1_Witness ==
    /\ FpHandled("0")
    /\ fpCall.resp[1] = "WARNING"
    /\ evFp = fpCall.before
    /\ \E t \in FpTargets :
          /\ evParent[t] # 0
          /\ evParent[evParent[t]] # 0
          /\ fpCall.before[evParent[evParent[t]]] = 1

\* C2: in every reachable state no event is unflagged while one of its
\* ancestors in the parent graph is flagged false positive.
C2_FlagsClosedDownward ==
    \A e \in StoredEvents(FpScan) : \A a \in AncestorsOf(e) :
        evFp[a] = 1 => evFp[e] = 1

\* an accepted unflag request cleared some flag while another event stays
\* flagged below its flagged parent
C2_Witness ==
    /\ FpHandled("0")
    /\ fpCall.resp[1] = "SUCCESS"
    /\ evFp # fpCall.before
    /\ \E e \in StoredEvents(FpScan) :
          /\ evParent[e] # 0
          /\ evFp[evParent[e]] = 1
          /\ evFp[e] = 1

\* C3: after a successful flag request (fp=1) every target event and every
\* transitive descendant of a target event is flagged false positive.
C3_FlagCascadesToDescendants ==
    (FpHandled("1") /\ fpCall.resp[1] = "SUCCESS")
    => \A t \in FpTargets :
          evFp[t] = 1 /\ \A d \in DescendantsOf(t) : evFp[d] = 1

\* a successful flag request flagged a child of a child of a target that was
\* not flagged before
C3_Witness ==
    /\ FpHandled("1")
    /\ fpCall.resp[1] = "SUCCESS"
    /\ \E t \in FpTargets : \E d \in DescendantsOf(t) :
          /\ evParent[d] # t
          /\ fpCall.before[d] = 0
          /\ evFp[d] = 1

\* C32: while an event is flagged false positive (from the successful flag
\* request to the successful unflag request), the data scanviz and scanvizmulti
\* hand to the graph export holds neither the event nor any of its descendants.
C32_FlaggedEventsLeftOutOfGraph ==
    view.op \in {"scanviz", "scanvizmulti"} =>
        \A k \in 1..Len(view.rows) :
            /\ evFp[view.rows[k]] = 0
            /\ \A a \in AncestorsOf(view.rows[k]) : evFp[a] = 0

\* the graph of a finished scan was exported with some of its events while an
\* event with a child is flagged
C32_Witness ==
    /\ view.op = "scanviz"
    /\ view.rows # <<>>
    /\ Len(view.rows) < Len(evFp)
    /\ \E e \in 1..Len(evFp) : \E d \in DescendantsOf(e) : evFp[e] = 1 /\ evFp[d] = 1

\* C27: resultsetfp changes a false-positive flag only when the persisted
\* status of the scan is ABORTED, FINISHED or ERROR-FAILED; for a scan in any
\* other status, and for an fp argument other than "0" and "1", the response
\* is a warning or an error and the flag of no event changes.
C27_FlagsChangeOnlyWhenFinished ==
    [][/\ (\E e \in 1..Len(evFp) : evFp'[e] # evFp[e])
            => /\ fpCall'.op = "resultsetfp"
               /\ scanInstanceGet(fpCall'.id) \in {"ABORTED", "FINISHED", "ERROR-FAILED"}
               /\ fpCall'.fp \in {"0", "1"}
       /\ (/\ fpCall'.op = "resultsetfp"
           /\ \/ scanInstanceGet(fpCall'.id) \notin {"ABORTED", "FINISHED", "ERROR-FAILED"}
              \/ fpCall'.fp \notin {"0", "1"})
            => /\ fpCall'.resp[1] \in {"WARNING", "ERROR", "ERRORPAGE"}
               /\ \A e \in 1..Len(evFp) : evFp'[e] = evFp[e]]_vars

\* a flag request on the running scan was answered with the warning and left
\* the stored events unflagged; the scan has events below ROOT
C27_Witness ==
    /\ fpCall.op = "resultsetfp"
    /\ fpCall.fp = "1"
    /\ fpCall.jsonok
    /\ scanInstanceGet(fpCall.id) = "RUNNING"
    /\ fpCall.resp[1] = "WARNING"
    /\ FpTargets # {}
    /\ Len(evFp) >= 2
    /\ \A e \in 1..Len(evFp) : evFp[e] = 0

\* C33: a successful unflag request (fp=0) leaves every target event and every
\* transitive descendant of a target event unflagged, not the targets alone.
C33_UnflagCascadesToDescendants ==
    (FpHandled("0") /\ fpCall.resp[1] = "SUCCESS")
    => \A t \in FpTargets :
          evFp[t] = 0 /\ \A d \in DescendantsOf(t) : evFp[d] = 0

\* a successful unflag request cleared the flag of a child of a child of its
\* target
C33_Witness ==
    /\ FpHandled("0")
    /\ fpCall.resp[1] = "SUCCESS"
    /\ \E t \in FpTargets : \E d \in DescendantsOf(t) :
          /\ evParent[d] # t
          /\ fpCall.before[t] = 1
          /\ fpCall.before[d] = 1
          /\ evFp[d] = 0

\* C34: a resultsetfp call changes the flag of no event but its target events
\* and their transitive descendants in the scan it names: the flags of
\* ancestors, siblings and unrelated events stay, and a call naming another
\* scan changes no flag.
C34_OnlyTargetsAndDescendantsChange ==
    fpCall.op = "resultsetfp" =>
        /\ \A e \in 1..Len(evFp) :
              (e \notin FpTargets /\ \A t \in FpTargets : e \notin DescendantsOf(t))
              => evFp[e] = fpCall.before[e]
        /\ fpCall.id # FpScan => evFp = fpCall.before

\* a successful flag request on an event below a non-ROOT parent flagged the
\* event and left its parent and its sibling unflagged
C34_Witness ==
    /\ FpHandled("1")
    /\ fpCall.resp[1] = "SUCCESS"
    /\ \E t \in FpTargets : \E sib \in 1..Len(evFp) :
          /\ evParent[t] # 0
          /\ evParent[evParent[t]] # 0
          /\ sib # t
          /\ sib \notin FpTargets
          /\ evParent[sib] = evParent[t]
          /\ fpCall.before[t] = 0
          /\ evFp[t] = 1
          /\ evFp[sib] = 0
          /\ evFp[evParent[t]] = 0

\* ------------------------------------------------- claims: scan lifecycle

TerminalStatus == {"FINISHED", "ABORTED", "ERROR-FAILED"}

\* the status changes of the state machine; a scan has no row, or is CREATED,
\* before it is STARTING
AllowedStatusChange ==
    {<<None, "STARTING">>, <<None, "CREATED">>, <<"CREATED", "STARTING">>,
     <<"STARTING", "RUNNING">>, <<"RUNNING", "FINISHED">>,
     <<"RUNNING", "ABORT-REQUESTED">>, <<"ABORT-REQUESTED", "ABORTED">>,
     <<"RUNNING", "ERROR-FAILED">>}

\* C4: under every interleaving of stopscan with the scanner's status updates
\* the persisted status of a scan changes only along STARTING -> RUNNING ->
\* (FINISHED | ABORT-REQUESTED -> ABORTED | ERROR-FAILED); a scan that is
\* FINISHED, ABORTED or ERROR-FAILED never changes status again.
C4_StatusFollowsStateMachine ==
    [][\A s \in ScanIds :
          status'[s] # status[s] => <<status[s], status'[s]>> \in AllowedStatusChange]_vars

\* C5: stopscan sets the listed scans to ABORT-REQUESTED only after it has seen
\* every listed scan exist in status RUNNING; when it sees a listed scan missing
\* or in another status it answers with an error and has set no status; when it
\* answers without error it has set every listed scan.
C5_StopscanAllOrNothing ==
    /\ (stop.pc = "set" \/ stop.wrote # {}) =>
          /\ Len(stop.seen) = Len(stop.ids)
          /\ \A i \in 1..Len(stop.seen) : stop.seen[i] = "RUNNING"
    /\ (\E i \in 1..Len(stop.seen) : stop.seen[i] # "RUNNING") =>
          /\ stop.pc = "idle"
          /\ stop.resp[1] \in {"400", "404"}
          /\ stop.wrote = {}
    /\ (stop.pc = "idle" /\ stop.resp[1] = "200") => stop.wrote = Range(stop.ids)

\* stopscan saw the first listed scan RUNNING and the second one not, answered
\* with an error and set nothing
C5_Witness ==
    /\ stop.pc = "idle"
    /\ Len(stop.seen) = 2
    /\ stop.seen[1] = "RUNNING"
    /\ stop.seen[2] \in {None, "STARTING", "FINISHED", "ABORT-REQUESTED"}
    /\ stop.resp[1] \in {"400", "404"}
    /\ stop.wrote = {}
    /\ status[stop.ids[1]] = "RUNNING"

\* C6: once a scan is ABORT-REQUESTED its persisted status eventually becomes
\* ABORTED, and is never RUNNING or FINISHED afterwards.
C6_AbortRequestEndsAborted ==
    \A s \in ScanIds :
        /\ (status[s] = "ABORT-REQUESTED") ~> (status[s] = "ABORTED")
        /\ [](status[s] = "ABORT-REQUESTED" => [](status[s] \notin {"RUNNING", "FINISHED"}))

\* C7: every scan whose persisted status reaches STARTING or RUNNING eventually
\* reaches a terminal persisted status.
C7_StartedScanEnds ==
    \A s \in ScanIds :
        (status[s] \in {"STARTING", "RUNNING"}) ~> (status[s] \in TerminalStatus)

\* C14: every startscan or rerunscan request that passes validation eventually
\* returns a response, even if the spawned scanner process dies before it
\* persists its scan instance
C14_LaunchRequestReturns == (start.pc = "wait") ~> (start.pc = "idle")

\* ------------------------------------------------ claims: startscan requests

\* the request names no scan, no target, no selection, a target of no known
\* type, or a selection that no module meets
C8_Rejectable(r) ==
    \/ r.scanname = ""
    \/ r.scantarget = ""
    \/ (r.modulelist = <<>> /\ r.typelist = {} /\ r.usecase = "")
    \/ targetTypeFromString(cleanUserInput(r.scantarget)) = None
    \/ /\ r.modulelist = <<>>
       /\ \A m \in Modules : produces[m] \cap r.typelist = {}
       /\ r.usecase # "all"
       /\ \A m \in Modules : r.usecase \notin GroupOf(m)

\* C8: a startscan request with an empty name, an empty target, no selection,
\* an unrecognised target or a selection that resolves to no module is answered
\* with an error; it starts no scanner process and leaves the persisted scan
\* instances as they are.
C8_BadRequestStartsNothing ==
    [][(start.pc = "idle" /\ start' # start /\ start'.op = "startscan"
          /\ C8_Rejectable(start'.req)) =>
          /\ start'.pc = "idle"
          /\ start'.resp[1] = "ERROR"
          /\ proc' = proc
          /\ launched' = launched
          /\ status' = status]_vars

\* a request for a type no module produces and a use case no module is in was
\* answered with an error while a scan started earlier exists
C8_Witness ==
    /\ start.pc = "idle"
    /\ start.resp[1] = "ERROR"
    /\ start.req.scanname # ""
    /\ targetTypeFromString(cleanUserInput(start.req.scantarget)) # None
    /\ start.req.modulelist = <<>>
    /\ start.req.typelist = {"Z"}
    /\ start.req.usecase = "nosuch"
    /\ \E s \in ScanIds : status[s] = "STARTING"
    /\ \E s \in ScanIds : proc[s] = "none"

\* C11: no scan is launched with a module list that contains the stdout module
\* sfp__stor_stdout, whatever module list was requested, lists naming that
\* module more than once included.
C11_NoStdoutModuleLaunched ==
    \A s \in ScanIds : "sfp__stor_stdout" \notin Range(launched[s].modlist)

\* C12: every module list startscan hands to a scanner process contains the
\* persistence module sfp__stor_db and is in ascending order, whichever of the
\* three selections produced it.
C12_LaunchedListHasDbAndIsSorted ==
    \A s \in ScanIds :
        launched[s] # NoLaunch =>
            /\ "sfp__stor_db" \in Range(launched[s].modlist)
            /\ \A i, j \in 1..Len(launched[s].modlist) :
                  i < j => Rank(launched[s].modlist[i]) <= Rank(launched[s].modlist[j])

\* a use case selected two modules and the scan was launched with the storage
\* module in front of them, after a scan launched from an explicit list
C12_Witness ==
    /\ start.pc = "wait"
    /\ start.scanId = 2
    /\ start.req.modulelist = <<>>
    /\ start.req.typelist = {}
    /\ start.req.usecase = "passive"
    /\ launched[2].modlist = <<"sfp__stor_db", "sfp_a", "sfp_b">>
    /\ launched[1].modlist = <<"sfp__stor_db", "sfp_a", "sfp_b">>

\* the modules of a list that are selected, the two storage modules that
\* startscan adds and removes by itself left aside
C29_Selected(modlist) == Range(modlist) \ {"sfp__stor_db", "sfp__stor_stdout"}

\* the least set of modules that holds the producers of the types and, with
\* every member, the producers of what the member consumes
C29_ByTypes(typesx) ==
    {m \in Modules :
        \A S \in SUBSET Modules :
            (/\ \A d \in Modules : produces[d] \cap typesx # {} => d \in S
             /\ \A c \in S : \A n \in Modules : produces[n] \cap consumes[c] # {} => n \in S)
            => m \in S}

\* the modules of a use case
C29_ByUseCase(usecase) == {m \in Modules : usecase = "all" \/ usecase \in GroupOf(m)}

\* C29: the three selections have a strict priority: a module list that is
\* given is launched as it is, whatever types and use case come with it; the
\* types decide only when no module list is given; the use case decides only
\* when the module list and the types selected no module.
C29_SelectionPriority ==
    (start.pc = "wait" /\ start.op = "startscan") =>
        LET req == start.req
            got == C29_Selected(launched[start.scanId].modlist)
        IN  /\ req.modulelist # <<>> => got = C29_Selected(req.modulelist)
            /\ (req.modulelist = <<>> /\ C29_ByTypes(req.typelist) # {})
                  => got = C29_Selected(ListOf(C29_ByTypes(req.typelist)))
            /\ (req.modulelist = <<>> /\ C29_ByTypes(req.typelist) = {})
                  => got = C29_Selected(ListOf(C29_ByUseCase(req.usecase)))

\* the second scan was launched from a module list that came with a type and
\* a use case selecting other modules
C29_Witness ==
    /\ start.pc = "wait"
    /\ start.op = "startscan"
    /\ start.scanId = 2
    /\ start.req.modulelist = <<"sfp_b", "sfp_a">>
    /\ start.req.typelist = {"X"}
    /\ start.req.usecase = "all"
    /\ launched[2].modlist = <<"sfp__stor_db", "sfp_a", "sfp_b">>
    /\ "sfp_c" \in C29_ByUseCase("all")

\* -------------------------------------------------- claims: result views

C26_DeleteAllOrNothing ==
    [][/\ (\E k \in 1..Len(del'.seen) :
              del'.seen[k] \in {None, "RUNNING", "STARTING", "STARTED"})
            => /\ del'.pc = "idle"
               /\ del'.resp[1] \in {"404", "400"}
       /\ del'.resp[1] \in {"404", "400"}
            => /\ del'.deleted = {}
               /\ del.pc # "idle" => status' = status
       /\ del'.resp[1] = "200"
            => \A k \in 1..Len(del'.ids) : status'[del'.ids[k]] = None
       /\ \A s \in ScanIds :
            (status[s] # None /\ status'[s] = None)
            => /\ status[s] \notin {"RUNNING", "STARTING", "STARTED"}
               /\ del.pc = "delete"
               /\ \A k \in 1..Len(del.ids) : status[del.ids[k]] \notin {"RUNNING", "STARTING", "STARTED"}]_vars

\* a request listing a finished scan and then a running one was refused, and
\* the finished scan is still there
C26_Witness ==
    /\ del.pc = "idle"
    /\ del.resp[1] = "400"
    /\ Len(del.ids) = 2
    /\ del.seen = <<"FINISHED", "RUNNING">>
    /\ status[del.ids[1]] = "FINISHED"
    /\ del.deleted = {}

\* ------------------------------------------------ claims: module selection

\* the modules producing a requested type
DirectlySelected(typesx) == {m \in Modules : produces[m] \cap typesx # {}}

\* S holds, with every member, every module producing a type the member consumes
ClosedUnderConsumes(S) ==
    \A m \in S : \A n \in Modules : produces[n] \cap consumes[m] # {} => n \in S

\* C9: the module set resolved from a type list is the least set that holds
\* every module producing a requested type and is closed under "a member
\* consumes T, so every module producing T is a member"; for A (produces X), B
\* (consumes X, produces Y) and the request Y it is exactly {A, B}.
C9_ResolvedSetIsLeastClosure ==
    rslv.pc = "done" =>
        /\ DirectlySelected(rslv.typesx) \subseteq rslv.modlist
        /\ ClosedUnderConsumes(rslv.modlist)
        /\ \A S \in SUBSET Modules :
              (DirectlySelected(rslv.typesx) \subseteq S /\ ClosedUnderConsumes(S))
              => rslv.modlist \subseteq S
        /\ (produces = ExampleProduces /\ consumes = ExampleConsumes
              /\ rslv.typesx = {"Y"}) => rslv.modlist = {"sfp_a", "sfp_b"}

\* the selection ended with a module that is needed only through a chain of two
\* consumed types
C9_Witness ==
    /\ rslv.pc = "done"
    /\ \E m \in rslv.modlist :
          /\ m \notin DirectlySelected(rslv.typesx)
          /\ \A d \in DirectlySelected(rslv.typesx) : produces[m] \cap consumes[d] = {}

\* C10: the expansion loop terminates for every registry and every requested
\* type list, cyclic produces/consumes relations included: its body runs at
\* most once more than there are modules selected, and only registered modules
\* are selected.
C10_ExpansionTerminates ==
    /\ rslv.modlist \subseteq Modules
    /\ rslv.rounds <= Cardinality(rslv.modlist) + 1
    /\ rslv.rounds < MaxRounds

\* the loop ended on a registry where two selected modules consume what the
\* other produces and a selected module consumes what it produces itself
C10_Witness ==
    /\ rslv.pc = "done"
    /\ \E a \in rslv.modlist, b \in rslv.modlist :
          /\ a # b
          /\ produces[a] \cap consumes[b] # {}
          /\ produces[b] \cap consumes[a] # {}
    /\ \E c \in rslv.modlist : produces[c] \cap consumes[c] # {}

\* C28: every pass of the expansion loop examines only the modules the pass
\* before it added (the first pass: the directly selected modules); no module
\* examined by an earlier pass is examined again.
C28_OnlyTheDeltaIsExamined ==
    /\ rslv.again = {}
    /\ (rslv.pc = "loop" /\ rslv.rounds > 0) => rslv.newmodcpy \cap rslv.examined = {}

\* ------------------------------------------------------ claims: settings

\* C35: savesettings and savesettingsraw change the active or the persisted
\* configuration only when the token of the request is the token the last opts
\* or optsraw call issued; with any other token, and before any token was
\* issued, the configuration stays as it is.
C35_SettingsChangeNeedsIssuedToken ==
    [][(heap'[config'] # heap[config] \/ dbConfig' # dbConfig)
        => /\ token \in Tokens
           /\ setCall'.tok = token]_vars

\* C36: when savesettings or savesettingsraw answers "Processing one or more of
\* your inputs failed", the active configuration and the persisted
\* configuration are what they were before the call.
C36_FailedSaveChangesNothing ==
    setCall.resp = <<"ERROR", "Processing one or more of your inputs failed">>
    => /\ heap[config] = setCall.config
       /\ dbConfig = setCall.dbConfig

C13_LaunchedConfigIsSnapshot ==
    \A s \in ScanIds : launched[s] # NoLaunch =>
        heap[launched[s].cfg] = launched[s].snapshot

\* scan 1 was started, a save changed the active configuration, scan 2 is the
\* rerun of scan 1 with the new configuration, and scan 1 keeps the old one
C13_Witness ==
    /\ launched[1] # NoLaunch /\ launched[2] # NoLaunch
    /\ start.op = "rerunscan"
    /\ setCall.op \in {"savesettings", "savesettingsraw"}
    /\ setCall.resp = <<"SUCCESS", "">>
    /\ setCall.config = launched[1].snapshot
    /\ heap[config] # launched[1].snapshot
    /\ heap[config] = launched[2].snapshot

\* ---------------------------------------------------- claims: sfp_voipbl

\* C15: between two setup calls, whatever events arrive, an instance looks a
\* data value up at most once and never notifies two events with the same
\* type, data and module
C15_OneLookupPerValue ==
    \A i \in Instances : ~inst[i].dupLookup /\ ~inst[i].dupEmit

\* an event was notified for a data value, and the value arrived again with
\* another event type and was skipped
C15_Witness ==
    /\ vb.pc = "idle" /\ vb.outcome = "skipped" /\ vb.seenBefore
    /\ \E e \in inst[vb.inst].emitted :
          /\ e.data.eventData = vb.event.data
          /\ e.type # EvtType(vb.event.type)

\* C16: after setup the dedup cache of the instance is empty: it holds only
\* data received since the setup, and a call is skipped as already checked
\* only for data received before since the setup
C16_SetupEmptiesResults ==
    /\ \A i \in Instances : inst[i].results \subseteq inst[i].seen
    /\ vb.outcome = "skipped" => vb.seenBefore

\* a value looked up before the last setup of the instance is looked up again
C16_Witness ==
    /\ vb.pc = "idle" /\ vb.outcome \in {"emitted", "none"} /\ ~vb.seenBefore
    /\ vb.event.data \in inst[vb.inst].prior
    /\ vb.event.data \in inst[vb.inst].looked

\* C17: the options in effect after setup(sfc, userOpts) are the declared
\* default options overridden by the userOpts of that call, whatever earlier
\* setup calls, on this or another instance, were given
C17_OptionsAreDefaultsOverridden ==
    setupCall.done => vbOpts = Override(DefaultOpts, setupCall.userOpts)

\* C18 as written: when the list cannot be fetched or an entry of the list
\* cannot be parsed, handleEvent raises no exception and emits no event for
\* that input
C18_FailureEmitsNothing ==
    (vb.pc = "idle" /\ (vb.fetchFailed \/ vb.raised)) =>
        vb.outcome \notin {"exception", "emitted"}

\* C18: handleEvent raises no exception. When the list cannot be fetched it
\* emits no event for that input. When an entry of the list cannot be parsed
\* the entry is passed over and the remaining entries are still checked: an
\* event is emitted only if another entry, one that can be parsed, lies in the
\* netblock. After either failure the instance is ready for the next event
C18_FailuresAreContained ==
    /\ vb.outcome # "exception"
    /\ (vb.pc = "idle" /\ vb.fetchFailed) => vb.outcome \in {"none", "stopped"}
    /\ (vb.pc = "idle" /\ vb.raised /\ vb.outcome = "emitted") =>
          \E k \in 1..Len(vb.iplist) :
              IsAddress(vb.iplist[k]) /\ InNetwork(vb.iplist[k], vb.event.data)
    /\ (vb.pc = "idle" /\ (vb.fetchFailed \/ vb.raised)) => inst[vb.inst].setup

\* the call before could not fetch the list; this call met an entry it could
\* not parse, went on, and notified an event for a later entry
C18_Witness ==
    /\ vb.pc = "idle" /\ vb.afterFailure
    /\ vb.raised /\ vb.outcome = "emitted"
    /\ MaliciousEvent(vb.event, ListUrl) \in inst[vb.inst].emitted

\* C19: while the candidates of the list are scanned for a netblock the stop
\* signal is polled once per candidate, so that once a stop is signalled at
\* most one further candidate is examined
C19_StopPolledPerCandidate == vb.afterStop <= 1

\* C20: for a NETBLOCK_OWNER or NETBLOCK_MEMBER input whose option is enabled
\* (the input is new to the instance and no stop is signalled) exactly one
\* event with the url of the list is notified if some candidate of the list
\* lies in the netblock, however many do, and none if no candidate does
C20_OneEventIffCandidateInRange ==
    (/\ vb.pc = "idle"
     /\ TypeId(vb.event.type) = "netblock"
     /\ vb.outcome \in {"emitted", "none"}) =>
        /\ vb.outcome = "emitted" <=>
              \E k \in 1..Len(vb.iplist) :
                  IsAddress(vb.iplist[k]) /\ InNetwork(vb.iplist[k], vb.event.data)
        /\ vb.outcome = "emitted" =>
              /\ MaliciousEvent(vb.event, ListUrl) \in inst[vb.inst].emitted
              /\ ~inst[vb.inst].dupEmit

\* the address lies inside the CIDR entry of the line
C21_EntryContains(line, ip) ==
    ip = "10.0.0.77" /\ line \in {"10.0.0.77/32", "10.0.0.0/24"}

\* C21: for an IP_ADDRESS input whose address lies inside a CIDR entry of the
\* list, the call (no stop being signalled) ends with one MALICIOUS_IPADDR
\* event that carries the url of the list
C21_ContainedAddressIsReported ==
    [][(/\ vb.pc = "poll" /\ vb'.pc = "idle"
        /\ vb.event.type = "IP_ADDRESS"
        /\ ~stopped[vb.inst]
        /\ \E k \in 1..Len(vb.content) : C21_EntryContains(vb.content[k], vb.event.data))
       => /\ vb'.outcome = "emitted"
          /\ MaliciousEvent(vb.event, ListUrl) \in inst'[vb.inst].emitted]_vars

\* C22: a lookup asks fetchUrl for the list only when the cache holds no valid
\* entry: once a fetch has succeeded, every lookup made while the entry is
\* valid is served from the cache
C22_FetchOnlyOnCacheMiss ==
    [][(vb.pc = "idle" /\ vb'.pc # "idle") => (vb'.didFetch <=> ~cache.valid)]_vars

\* the second call looks the list up while the entry cached by the first call
\* is valid, and does not fetch
C22_Witness ==
    /\ calls = 2 /\ vb.pc \in {"scan", "poll"}
    /\ cache.valid /\ ~vb.didFetch /\ ~vb.fetchFailed

\* C24: every event the module emits has as its parent the input event whose
\* handling produced it, an event the instance received in the same scan
C24_ParentIsTheInputEvent ==
    \A i \in Instances : \A e \in inst[i].emitted :
        /\ e.sourceEvent \in InputEvents
        /\ e.sourceEvent.data \in inst[i].seen
        /\ e.type = EvtType(e.sourceEvent.type)
        /\ e.data.eventData = e.sourceEvent.data

\* an affiliate address was reported: the parent of the event is the
\* AFFILIATE_IPADDR event received
C24_Witness ==
    \E i \in Instances : \E e \in inst[i].emitted :
        /\ e.type = "MALICIOUS_AFFILIATE_IPADDR"
        /\ e.sourceEvent = [type |-> "AFFILIATE_IPADDR", data |-> "10.0.0.77"]

\* C30: if the stop signal is set when handleEvent polls it after the lookup,
\* the call emits no event, even when the lookup found a match
C30_NoEventAfterStopObserved ==
    [][(vb.pc = "poll" /\ stopped[vb.inst] /\ vb'.pc = "idle")
       => /\ vb'.outcome = "stopped"
          /\ inst'[vb.inst].emitted = inst[vb.inst].emitted]_vars

\* the lookup found a match in the netblock and the call ended on the stop
\* signal with nothing emitted
C30_Witness ==
    /\ vb.pc = "idle" /\ vb.outcome = "stopped" /\ vb.url = ListUrl
    /\ inst[vb.inst].emitted = {}

\* C23: when several workers look the list up concurrently while the cache
\* holds no valid entry, at most one fetch of the list is in flight
C23_OneFetchInFlight ==
    Cardinality({w \in Workers : fetchers[w].pc = "fetching"}) <= 1

\* ------------------------------------------------------- claims: rerunscan

\* C38: a scan that is run again is launched with the target string of the
\* original scan, of the same type, its case kept or folded as startscan did
C38_RerunKeepsTargetAndFolding ==
    (start.op = "rerunscan" /\ start.pc = "wait") =>
        /\ launched[start.scanId].targetType = launched[start.src].targetType
        /\ launched[start.scanId].scantarget = launched[start.src].scantarget

\* ------------------------------------------------------ claims: scandelete

\* C39: scandelete never removes a scan whose scanner may still be executing:
\* no scan in the status STARTING, RUNNING or ABORT-REQUESTED is removed
C39_NoUnfinishedScanDeleted ==
    [][\A s \in ScanIds :
          status[s] \in {"STARTING", "RUNNING", "ABORT-REQUESTED"} => status'[s] # None]_vars

\* ------------------------------------------------ claims: order of delivery

\* the (type, data) pairs of a set of notified events
C31_TypeData(events) == {<<e.type, e.data>> : e \in events}

\* C31: with the same list content and the same options, two scans that were
\* delivered the same set of input events, in whatever order, have emitted the
\* same set of (type, data) events
C31_EmittedSetIndependentOfOrder ==
    \A i, j \in Instances :
        (vb.pc = "idle" /\ delivered[i] = delivered[j]) =>
            C31_TypeData(inst[i].emitted) = C31_TypeData(inst[j].emitted)

====
